---- MODULE Spec2Model ----
(***************************************************************************)
(* A model of the oxc-walker traversal engine: WalkerSync.traverse/_walk   *)
(* (src/src/walker/sync.ts), the WalkerBase directive flags and tree       *)
(* operations (walker/base.ts, kept in src/package.json lines 72-260), the *)
(* node classifier isNode (utils.ts, src/package.json lines 66-70) and the *)
(* walk facade (src/src/walk.ts).                                          *)
(*                                                                         *)
(* The recursion of _walk is an explicit stack of activation records; a    *)
(* callback invocation is open between the step that calls it and the step *)
(* at which it returns, and in between the callback may call the context   *)
(* methods skip/remove/replace (and, in SpecR, walk() again).              *)
(***************************************************************************)
EXTENDS Integers, Sequences, FiniteSets, TLC

VARIABLES
  heap,     \* object id -> [type, keys, val]: the JS objects (the AST)
  walkers,  \* the WalkerSync instances created so far
  stack,    \* activation records of _walk, innermost last
  results,  \* walker id -> [done, value]: what traverse returned
  log,      \* history: callback invocations, context calls, tree writes
  budget,   \* context calls (and walk() calls) the callbacks may still make
  fresh,    \* replacement objects the callbacks have not yet handed out
  tracker,  \* the ScopeTracker instance (attached to a walker or not)
  tlog,     \* history: the tracker before and after each call made on it
  undeclaredIdentifiers,  \* the Set of getUndeclaredIdentifiersInFunction
  parseCall, \* parseAndWalk: its arguments and what it handed to parseSync
  Kind      \* node id -> the fields of the node the tracker reads

vars == <<heap, walkers, stack, results, log, budget, fresh, tracker, tlog,
          undeclaredIdentifiers, parseCall, Kind>>

(* the state of the functions that call walk() *)
outer == <<undeclaredIdentifiers, parseCall, Kind>>

----------------------------------------------------------------------------
(* Bounds *)

MaxDirectives == 3   \* context calls (skip/remove/replace) per run of Spec
MaxDirectivesR == 2  \* context calls and nested walk() calls per run of SpecR
MaxDirectivesT == 1  \* context calls per run of SpecT (all traversals together)
MaxWalks == 2        \* traversals made with one tracker in SpecT
MaxFreezes == 2      \* calls of freeze() per run of SpecZ
MaxDirectivesD == 2  \* directives per run of SpecD
MaxDirectivesE == 2  \* directives per run of SpecE
MaxOrdinal == 10     \* SpecK: sibling scopes opened inside one scope
MaxDepth == 2        \* SpecK: scopes open at the same time
MaxDirectivesO == 1  \* replace() calls per run of SpecO

----------------------------------------------------------------------------
(* JS values.  0 is null (and what a missing field reads as), -1 any       *)
(* scalar, -2 undefined as a value of its own, ids > 0 are objects.        *)

Null == 0
Scalar == 0 - 1
Undefined == 0 - 2
NullIdx == 0 - 1       \* index === null
NullKey == "null"      \* key === null

ArrVal(es) == [kind |-> "arr", elems |-> es, ref |-> Null]
OneVal(v) == [kind |-> "one", elems |-> <<>>, ref |-> v]
AllKeys == {"name", "body", "arg", "extra"}
NoVal == OneVal(Null)

Obj(t, ks, f) ==
  [type |-> t, keys |-> ks,
   val |-> [k \in AllKeys |-> IF k \in DOMAIN f THEN f[k] ELSE NoVal]]

Range(s) == {s[n] : n \in 1..Len(s)}

(* The tree handed to walk(): a Program-like root 1 whose body array holds  *)
(* a hole and the nodes 2 and 3; 2 has the single child 6.  10 is a plain  *)
(* object without a type tag (it refers to a node all the same), 11 an     *)
(* object whose type is a number, 5 one whose type is null.  7 (with child *)
(* 8), 9 and 14 are                                                        *)
(* objects a callback may pass to replace(); 12 is the root of an          *)
(* unrelated tree (with child 13).                                         *)
Tree0 ==
  [n \in 1..14 |->
     CASE n = 1 -> Obj("str", <<"name", "body", "arg">>,
                       [name |-> OneVal(Scalar), body |-> ArrVal(<<Null, 2, 3>>),
                        arg |-> OneVal(Null)])
       [] n = 2 -> Obj("str", <<"extra", "arg">>,
                       [extra |-> OneVal(10), arg |-> OneVal(6)])
       [] n = 3 -> Obj("str", <<"name", "extra">>,
                       [name |-> OneVal(Scalar), extra |-> OneVal(11)])
       [] n = 5 -> Obj("null", <<"arg">>, [arg |-> OneVal(6)])
       [] n = 7 -> Obj("str", <<"body">>, [body |-> ArrVal(<<8>>)])
       [] n = 10 -> Obj("undef", <<"arg">>, [arg |-> OneVal(6)])
       [] n = 11 -> Obj("num", <<>>, <<>>)
       [] n = 12 -> Obj("str", <<"body">>, [body |-> ArrVal(<<13>>)])
       [] OTHER -> Obj("str", <<>>, <<>>)]

Root == 1
RootR == 2       \* the subtree that SpecR walks
OtherRoot == 12
Replacements == {7, 9, 14}

(* The typed tree handed to walk() together with a scope tracker:          *)
(*                                                                         *)
(*    var x                           1 Program, 2 VariableDeclaration     *)
(*    function f(a) {                 3 FunctionDeclaration, 4 its block   *)
(*      x                             9 ExpressionStatement                *)
(*      for (let i;;) { i }           5 ForStatement, 6 its init,          *)
(*                                    7 BlockStatement, 8 the statement    *)
(*      var x                         10 VariableDeclaration               *)
(*      var x                         11 VariableDeclaration               *)
(*    }                                                                    *)
(*    (function g(b) {})              12 FunctionExpression, 13 its block  *)
(*                                                                         *)
(* 15 is the statement  if (..) { var y } else { }  with the blocks 16     *)
(* (holding 17) and 18, walked on its own; 14 is an empty block a callback *)
(* may pass to replace().                                                  *)
TreeT ==
  [n \in 1..18 |->
     CASE n = 1 -> Obj("str", <<"body">>, [body |-> ArrVal(<<2, 3, 12>>)])
       [] n = 3 -> Obj("str", <<"body">>, [body |-> OneVal(4)])
       [] n = 4 -> Obj("str", <<"body">>, [body |-> ArrVal(<<9, 5, 10, 11>>)])
       [] n = 5 -> Obj("str", <<"arg", "body">>,
                       [arg |-> OneVal(6), body |-> OneVal(7)])
       [] n = 7 -> Obj("str", <<"body">>, [body |-> ArrVal(<<8>>)])
       [] n = 12 -> Obj("str", <<"body">>, [body |-> OneVal(13)])
       [] n = 15 -> Obj("str", <<"arg", "extra">>,
                        [arg |-> OneVal(16), extra |-> OneVal(18)])
       [] n = 16 -> Obj("str", <<"body">>, [body |-> ArrVal(<<17>>)])
       [] OTHER -> Obj("str", <<"body">>, [body |-> ArrVal(<<>>)])]

RootT == 1
RootIf == 15
ReplacementsT == {14}

(* The syntax of a node: the fields that the scope tracker and the         *)
(* identifier classification read (node.type, node.name, node.id,          *)
(* node.params, ...), each holding a node, a list of nodes or nothing.      *)
(* lacks names the list fields that a partially shaped node does not have  *)
(* at all (reading them gives undefined).                                  *)
NoFields ==
  [type |-> "", name |-> "", id |-> Null, params |-> <<>>,
   declarations |-> <<>>, init |-> Null, left |-> Null, right |-> Null,
   param |-> Null, specifiers |-> <<>>, local |-> Null, argument |-> Null,
   elements |-> <<>>, properties |-> <<>>, key |-> Null, value |-> Null,
   object |-> Null, property |-> Null, computed |-> FALSE,
   lacks |-> {}]

Syntax(t, f) ==
  [k \in DOMAIN NoFields |->
     IF k = "type" THEN t ELSE IF k \in DOMAIN f THEN f[k] ELSE NoFields[k]]

Plain(t) == Syntax(t, <<>>)
Identifier(name) == Syntax("Identifier", [name |-> name])
VariableDeclaration(declarations) ==
  Syntax("VariableDeclaration", [declarations |-> declarations])
VariableDeclarator(id) == Syntax("VariableDeclarator", [id |-> id])

(* The nodes of the typed tree.  101..115 are its declarators and          *)
(* identifiers, which the tree keeps in fields that the traversal of the   *)
(* typed tree does not follow.  21..35 are one further node of every kind  *)
(* the tracker knows (and one it does not), all without names.             *)
SyntaxT ==
  [n \in (1..35) \cup (101..115) |->
     CASE n = 1 -> Plain("Program")
       [] n = 2 -> VariableDeclaration(<<102>>)
       [] n = 102 -> VariableDeclarator(103)
       [] n = 103 -> Identifier("x")
       [] n = 3 -> Syntax("FunctionDeclaration", [id |-> 104, params |-> <<105>>])
       [] n = 104 -> Identifier("f")
       [] n = 105 -> Identifier("a")
       [] n \in {4, 7, 13, 14, 16, 18} -> Plain("BlockStatement")
       [] n = 5 -> Syntax("ForStatement", [init |-> 6])
       [] n = 6 -> VariableDeclaration(<<106>>)
       [] n = 106 -> VariableDeclarator(107)
       [] n = 107 -> Identifier("i")
       [] n = 10 -> VariableDeclaration(<<108>>)
       [] n = 108 -> VariableDeclarator(109)
       [] n = 109 -> Identifier("x")
       [] n = 11 -> VariableDeclaration(<<110>>)
       [] n = 110 -> VariableDeclarator(111)
       [] n = 111 -> Identifier("x")
       [] n = 12 -> Syntax("FunctionExpression", [id |-> 112, params |-> <<113>>])
       [] n = 112 -> Identifier("g")
       [] n = 113 -> Identifier("b")
       [] n = 15 -> Plain("IfStatement")
       [] n = 17 -> VariableDeclaration(<<114>>)
       [] n = 114 -> VariableDeclarator(115)
       [] n = 115 -> Identifier("y")
       [] n = 21 -> Plain("Program")
       [] n = 22 -> Plain("BlockStatement")
       [] n = 23 -> Plain("StaticBlock")
       [] n = 24 -> Plain("FunctionDeclaration")
       [] n = 25 -> Plain("FunctionExpression")
       [] n = 26 -> Plain("ArrowFunctionExpression")
       [] n = 27 -> Plain("VariableDeclaration")
       [] n = 28 -> Plain("ClassDeclaration")
       [] n = 29 -> Plain("ClassExpression")
       [] n = 30 -> Plain("ImportDeclaration")
       [] n = 31 -> Plain("CatchClause")
       [] n = 32 -> Plain("ForStatement")
       [] n = 33 -> Plain("ForOfStatement")
       [] n = 34 -> Plain("ForInStatement")
       [] OTHER -> Plain("ExpressionStatement")]

(* The program that the undeclared-identifier analysis and the walks with  *)
(* a scope tracker are given, with every identifier a node of its own:     *)
(*                                                                         *)
(*    import d, { n as m } from '..'      240 Program, 241 the import      *)
(*    class C {}                          247                              *)
(*    function f(x) { return x + y }      250                              *)
(*    (function g(p) {                    259                              *)
(*      u                                 264                              *)
(*      { v, w }                          265; 268, 269                    *)
(*      var u, v                          270                              *)
(*      { let s }                         275, 276                         *)
(*      s, z, o.m, z, g, p, o[q]          281 .. 288; 323 (q is 325)       *)
(*    })                                                                   *)
(*    (([a], {k: b}, ...r) => {           290; 291, 293, 297               *)
(*      for (const i of a) { i, b }       300; 308, 309                    *)
(*      try {} catch (e) { e }            310, 312; 316                    *)
(*      k, i, e, r                        319 .. 322                       *)
(*    })                                                                   *)
(*    const { c: h } = ..                 326; 328 the pattern, 331 h      *)
(*                                                                         *)
(* TreeU is the shape of the objects (own keys in order, children), and    *)
(* SyntaxU what the fields hold.  The fields are stored under the keys     *)
(* name (id, key, local, param), arg (params, declarations, specifiers,    *)
(* elements, properties, expressions, argument, expression, left, object), *)
(* extra (right, property, value, handler, imported) and body.             *)
NodesU == 240..331

TreeU ==
  [n \in NodesU |->
     CASE n = 240 -> Obj("str", <<"body">>,
                        [body |-> ArrVal(<<241, 247, 250, 258, 289, 326>>)])
       [] n = 241 -> Obj("str", <<"arg">>,
                        [arg |-> ArrVal(<<242, 244>>)])
       [] n = 242 -> Obj("str", <<"name">>,
                        [name |-> OneVal(243)])
       [] n = 244 -> Obj("str", <<"extra", "name">>,
                        [extra |-> OneVal(245), name |-> OneVal(246)])
       [] n = 247 -> Obj("str", <<"name", "body">>,
                        [name |-> OneVal(248), body |-> OneVal(249)])
       [] n = 249 -> Obj("str", <<"body">>,
                        [body |-> ArrVal(<<>>)])
       [] n = 250 -> Obj("str", <<"name", "arg", "body">>,
                        [name |-> OneVal(251), arg |-> ArrVal(<<252>>), body |-> OneVal(253)])
       [] n = 253 -> Obj("str", <<"body">>,
                        [body |-> ArrVal(<<254>>)])
       [] n = 254 -> Obj("str", <<"arg">>,
                        [arg |-> OneVal(255)])
       [] n = 255 -> Obj("str", <<"arg", "extra">>,
                        [arg |-> OneVal(256), extra |-> OneVal(257)])
       [] n = 258 -> Obj("str", <<"arg">>,
                        [arg |-> OneVal(259)])
       [] n = 259 -> Obj("str", <<"name", "arg", "body">>,
                        [name |-> OneVal(260), arg |-> ArrVal(<<261>>), body |-> OneVal(262)])
       [] n = 262 -> Obj("str", <<"body">>,
                        [body |-> ArrVal(<<263, 265, 270, 275, 279>>)])
       [] n = 263 -> Obj("str", <<"arg">>,
                        [arg |-> OneVal(264)])
       [] n = 265 -> Obj("str", <<"body">>,
                        [body |-> ArrVal(<<266>>)])
       [] n = 266 -> Obj("str", <<"arg">>,
                        [arg |-> OneVal(267)])
       [] n = 267 -> Obj("str", <<"arg">>,
                        [arg |-> ArrVal(<<268, 269>>)])
       [] n = 270 -> Obj("str", <<"arg">>,
                        [arg |-> ArrVal(<<271, 273>>)])
       [] n = 271 -> Obj("str", <<"name">>,
                        [name |-> OneVal(272)])
       [] n = 273 -> Obj("str", <<"name">>,
                        [name |-> OneVal(274)])
       [] n = 275 -> Obj("str", <<"body">>,
                        [body |-> ArrVal(<<276>>)])
       [] n = 276 -> Obj("str", <<"arg">>,
                        [arg |-> ArrVal(<<277>>)])
       [] n = 277 -> Obj("str", <<"name">>,
                        [name |-> OneVal(278)])
       [] n = 279 -> Obj("str", <<"arg">>,
                        [arg |-> OneVal(280)])
       [] n = 280 -> Obj("str", <<"arg">>,
                        [arg |-> ArrVal(<<281, 282, 283, 286, 287, 288, 323>>)])
       [] n = 283 -> Obj("str", <<"arg", "extra">>,
                        [arg |-> OneVal(284), extra |-> OneVal(285)])
       [] n = 289 -> Obj("str", <<"arg">>,
                        [arg |-> OneVal(290)])
       [] n = 290 -> Obj("str", <<"arg", "body">>,
                        [arg |-> ArrVal(<<291, 293, 297>>), body |-> OneVal(299)])
       [] n = 291 -> Obj("str", <<"arg">>,
                        [arg |-> ArrVal(<<292>>)])
       [] n = 293 -> Obj("str", <<"arg">>,
                        [arg |-> ArrVal(<<294>>)])
       [] n = 294 -> Obj("str", <<"name", "extra">>,
                        [name |-> OneVal(295), extra |-> OneVal(296)])
       [] n = 297 -> Obj("str", <<"arg">>,
                        [arg |-> OneVal(298)])
       [] n = 299 -> Obj("str", <<"body">>,
                        [body |-> ArrVal(<<300, 310, 317>>)])
       [] n = 300 -> Obj("str", <<"arg", "extra", "body">>,
                        [arg |-> OneVal(301), extra |-> OneVal(304), body |-> OneVal(305)])
       [] n = 301 -> Obj("str", <<"arg">>,
                        [arg |-> ArrVal(<<302>>)])
       [] n = 302 -> Obj("str", <<"name">>,
                        [name |-> OneVal(303)])
       [] n = 305 -> Obj("str", <<"body">>,
                        [body |-> ArrVal(<<306>>)])
       [] n = 306 -> Obj("str", <<"arg">>,
                        [arg |-> OneVal(307)])
       [] n = 307 -> Obj("str", <<"arg">>,
                        [arg |-> ArrVal(<<308, 309>>)])
       [] n = 310 -> Obj("str", <<"body", "extra">>,
                        [body |-> OneVal(311), extra |-> OneVal(312)])
       [] n = 311 -> Obj("str", <<"body">>,
                        [body |-> ArrVal(<<>>)])
       [] n = 312 -> Obj("str", <<"name", "body">>,
                        [name |-> OneVal(313), body |-> OneVal(314)])
       [] n = 314 -> Obj("str", <<"body">>,
                        [body |-> ArrVal(<<315>>)])
       [] n = 315 -> Obj("str", <<"arg">>,
                        [arg |-> OneVal(316)])
       [] n = 317 -> Obj("str", <<"arg">>,
                        [arg |-> OneVal(318)])
       [] n = 318 -> Obj("str", <<"arg">>,
                        [arg |-> ArrVal(<<319, 320, 321, 322>>)])
       [] n = 323 -> Obj("str", <<"arg", "extra">>,
                        [arg |-> OneVal(324), extra |-> OneVal(325)])
       [] n = 326 -> Obj("str", <<"arg">>,
                        [arg |-> ArrVal(<<327>>)])
       [] n = 327 -> Obj("str", <<"name">>,
                        [name |-> OneVal(328)])
       [] n = 328 -> Obj("str", <<"arg">>,
                        [arg |-> ArrVal(<<329>>)])
       [] n = 329 -> Obj("str", <<"name", "extra">>,
                        [name |-> OneVal(330), extra |-> OneVal(331)])
       [] OTHER -> Obj("str", <<>>, <<>>)]

SyntaxU ==
  [n \in NodesU |->
     CASE n = 240 -> Plain("Program")
       [] n = 241 -> Syntax("ImportDeclaration", [specifiers |-> <<242, 244>>])
       [] n = 242 -> Syntax("ImportDefaultSpecifier", [local |-> 243])
       [] n = 244 -> Syntax("ImportSpecifier", [local |-> 246])
       [] n = 247 -> Syntax("ClassDeclaration", [id |-> 248])
       [] n = 249 -> Plain("ClassBody")
       [] n = 250 -> Syntax("FunctionDeclaration", [id |-> 251, params |-> <<252>>])
       [] n = 253 -> Plain("BlockStatement")
       [] n = 254 -> Syntax("ReturnStatement", [argument |-> 255])
       [] n = 255 -> Syntax("BinaryExpression", [left |-> 256, right |-> 257])
       [] n = 258 -> Plain("ExpressionStatement")
       [] n = 259 -> Syntax("FunctionExpression", [id |-> 260, params |-> <<261>>])
       [] n = 262 -> Plain("BlockStatement")
       [] n = 263 -> Plain("ExpressionStatement")
       [] n = 265 -> Plain("BlockStatement")
       [] n = 266 -> Plain("ExpressionStatement")
       [] n = 267 -> Plain("SequenceExpression")
       [] n = 270 -> Syntax("VariableDeclaration", [declarations |-> <<271, 273>>])
       [] n = 271 -> Syntax("VariableDeclarator", [id |-> 272])
       [] n = 273 -> Syntax("VariableDeclarator", [id |-> 274])
       [] n = 275 -> Plain("BlockStatement")
       [] n = 276 -> Syntax("VariableDeclaration", [declarations |-> <<277>>])
       [] n = 277 -> Syntax("VariableDeclarator", [id |-> 278])
       [] n = 279 -> Plain("ExpressionStatement")
       [] n = 280 -> Plain("SequenceExpression")
       [] n = 283 -> Syntax("MemberExpression", [object |-> 284, property |-> 285])
       [] n = 289 -> Plain("ExpressionStatement")
       [] n = 290 -> Syntax("ArrowFunctionExpression", [params |-> <<291, 293, 297>>])
       [] n = 291 -> Syntax("ArrayPattern", [elements |-> <<292>>])
       [] n = 293 -> Syntax("ObjectPattern", [properties |-> <<294>>])
       [] n = 294 -> Syntax("Property", [key |-> 295, value |-> 296])
       [] n = 297 -> Syntax("RestElement", [argument |-> 298])
       [] n = 299 -> Plain("BlockStatement")
       [] n = 300 -> Syntax("ForOfStatement", [left |-> 301, right |-> 304])
       [] n = 301 -> Syntax("VariableDeclaration", [declarations |-> <<302>>])
       [] n = 302 -> Syntax("VariableDeclarator", [id |-> 303])
       [] n = 305 -> Plain("BlockStatement")
       [] n = 306 -> Plain("ExpressionStatement")
       [] n = 307 -> Plain("SequenceExpression")
       [] n = 310 -> Plain("TryStatement")
       [] n = 311 -> Plain("BlockStatement")
       [] n = 312 -> Syntax("CatchClause", [param |-> 313])
       [] n = 314 -> Plain("BlockStatement")
       [] n = 315 -> Plain("ExpressionStatement")
       [] n = 317 -> Plain("ExpressionStatement")
       [] n = 318 -> Plain("SequenceExpression")
       [] n = 323 -> Syntax("MemberExpression", [object |-> 324, property |-> 325, computed |-> TRUE])
       [] n = 326 -> Syntax("VariableDeclaration", [declarations |-> <<327>>])
       [] n = 327 -> Syntax("VariableDeclarator", [id |-> 328])
       [] n = 328 -> Syntax("ObjectPattern", [properties |-> <<329>>])
       [] n = 329 -> Syntax("Property", [key |-> 330, value |-> 331])
       [] n \in {243} -> Identifier("d")
       [] n \in {245} -> Identifier("n")
       [] n \in {246, 285} -> Identifier("m")
       [] n \in {248} -> Identifier("C")
       [] n \in {251} -> Identifier("f")
       [] n \in {252, 256} -> Identifier("x")
       [] n \in {257} -> Identifier("y")
       [] n \in {260, 287} -> Identifier("g")
       [] n \in {261, 288} -> Identifier("p")
       [] n \in {264, 272} -> Identifier("u")
       [] n \in {268, 274} -> Identifier("v")
       [] n \in {269} -> Identifier("w")
       [] n \in {278, 281} -> Identifier("s")
       [] n \in {282, 286} -> Identifier("z")
       [] n \in {284, 324} -> Identifier("o")
       [] n \in {292, 304} -> Identifier("a")
       [] n \in {295, 319} -> Identifier("k")
       [] n \in {296, 309} -> Identifier("b")
       [] n \in {298, 322} -> Identifier("r")
       [] n \in {303, 308, 320} -> Identifier("i")
       [] n \in {313, 316, 321} -> Identifier("e")
       [] n \in {325} -> Identifier("q")
       [] n \in {330} -> Identifier("c")
       [] n \in {331} -> Identifier("h")]

(* What the program reads of a node: its syntax and node.start, node.end,  *)
(* which differ from node to node.                                         *)
(* A tree with partially shaped nodes: hand-built objects that have the    *)
(* type of a known kind but not all of its fields.                         *)
(*                                                                         *)
(*   400 Program, body [401, 403, 405, 407, 408, 410]                      *)
(*   401 { type: 'CatchClause', body: 402 }            no param            *)
(*   403 { type: 'ForStatement', body: 404 }           no init/test/update *)
(*   405 { type: 'FunctionDeclaration', body: 406 }    no id, no params    *)
(*   407 { type: 'VariableDeclaration' }               no declarations     *)
(*   408 { type: 'ForOfStatement', right: 409 }        no left, no body    *)
(*   410 { type: 'ImportDeclaration' }                 no specifiers       *)
(*   411 { type: 'BlockStatement', body: [412] }       a replacement, with *)
(*   412 { type: 'VariableDeclaration' }               no declarations     *)
NodesP == 400..412

TreeP ==
  [n \in NodesP |->
     CASE n = 400 -> Obj("str", <<"body">>,
                         [body |-> ArrVal(<<401, 403, 405, 407, 408, 410>>)])
       [] n \in {401, 403, 405} -> Obj("str", <<"body">>, [body |-> OneVal(n + 1)])
       [] n \in {402, 404, 406} -> Obj("str", <<"body">>, [body |-> ArrVal(<<>>)])
       [] n = 408 -> Obj("str", <<"extra">>, [extra |-> OneVal(409)])
       [] n = 411 -> Obj("str", <<"body">>, [body |-> ArrVal(<<412>>)])
       [] OTHER -> Obj("str", <<>>, <<>>)]

SyntaxP ==
  [n \in NodesP |->
     CASE n = 400 -> Plain("Program")
       [] n = 401 -> Syntax("CatchClause", [lacks |-> {"param"}])
       [] n = 403 -> Syntax("ForStatement", [lacks |-> {"init"}])
       [] n = 405 -> Syntax("FunctionDeclaration", [lacks |-> {"id", "params"}])
       [] n \in {407, 412} ->
            Syntax("VariableDeclaration", [lacks |-> {"declarations"}])
       [] n = 408 -> Syntax("ForOfStatement", [right |-> 409, lacks |-> {"left"}])
       [] n = 409 -> Identifier("a")
       [] n = 410 -> Syntax("ImportDeclaration", [lacks |-> {"specifiers"}])
       [] OTHER -> Plain("BlockStatement")]

RootP == 400
ReplacementsP == {411}

(* The program of named functions and classes, walked whole or from one   *)
(* of its statements:                                                      *)
(*                                                                         *)
(*    function f(a) { .. }          501 FunctionDeclaration, 502, 503      *)
(*    (function g(b) { .. })        505 FunctionExpression, 506, 504       *)
(*    (class K {})                  507 ClassExpression, 508 its body      *)
(*    { }                           509 BlockStatement                     *)
(*                                                                         *)
(* 500 is the Program; 520..524 are the identifiers f, a, g, b and K.      *)
(* 510 is the clause  case 0: { } var v  of a switch statement, with the   *)
(* block 511 and the declaration 512 (declarator 525, identifier 526).     *)
TreeF ==
  [n \in 500..512 |->
     CASE n = 500 -> Obj("str", <<"body">>, [body |-> ArrVal(<<501, 505, 507, 509>>)])
       [] n \in {501, 505, 507} -> Obj("str", <<"body">>, [body |-> OneVal(n + 1)])
       [] n = 502 -> Obj("str", <<"body">>, [body |-> ArrVal(<<503>>)])
       [] n = 506 -> Obj("str", <<"body">>, [body |-> ArrVal(<<504>>)])
       [] n = 510 -> Obj("str", <<"body">>, [body |-> ArrVal(<<511, 512>>)])
       [] OTHER -> Obj("str", <<"body">>, [body |-> ArrVal(<<>>)])]

SyntaxF ==
  [n \in (500..512) \cup (520..526) |->
     CASE n = 500 -> Plain("Program")
       [] n = 501 -> Syntax("FunctionDeclaration", [id |-> 520, params |-> <<521>>])
       [] n = 505 -> Syntax("FunctionExpression", [id |-> 522, params |-> <<523>>])
       [] n = 507 -> Syntax("ClassExpression", [id |-> 524])
       [] n = 508 -> Plain("ClassBody")
       [] n \in {502, 506, 509, 511} -> Plain("BlockStatement")
       [] n = 510 -> Plain("SwitchCase")
       [] n = 512 -> VariableDeclaration(<<525>>)
       [] n = 525 -> VariableDeclarator(526)
       [] n = 526 -> Identifier("v")
       [] n = 520 -> Identifier("f")
       [] n = 521 -> Identifier("a")
       [] n = 522 -> Identifier("g")
       [] n = 523 -> Identifier("b")
       [] n = 524 -> Identifier("K")
       [] OTHER -> Plain("ExpressionStatement")]

RootsF == {500, 501, 505, 507, 510}

SyntaxOf ==
  [n \in DOMAIN SyntaxT \cup DOMAIN SyntaxU \cup DOMAIN SyntaxP
          \cup DOMAIN SyntaxF |->
     [k \in DOMAIN NoFields \cup {"start", "end"} |->
        IF k = "start" THEN 2 * n
        ELSE IF k = "end" THEN 2 * n + 1
        ELSE IF n \in DOMAIN SyntaxT THEN SyntaxT[n][k]
        ELSE IF n \in DOMAIN SyntaxU THEN SyntaxU[n][k]
        ELSE IF n \in DOMAIN SyntaxP THEN SyntaxP[n][k] ELSE SyntaxF[n][k]]]

Names == {"x", "f", "a", "i", "g", "b", "y"}

----------------------------------------------------------------------------
(* utils.ts *)

(* typeof v: 'object' for null as for an object *)
typeof(h, v) ==
  IF v = Null \/ v \in DOMAIN h THEN "object"
  ELSE IF v = Undefined THEN "undefined" ELSE "number"

(* variant: any type that is there will do *)
isNode_anyType(h, v) ==
  /\ v # Null
  /\ typeof(h, v) = "object"
  /\ h[v].type \notin {"undef", "null"}

(* isNode, 68-70: v !== null    && typeof v === 'object' && v.type != null   *)
(* && typeof v.type === 'string'; the type tag of an object says what its  *)
(* type field holds                                                        *)
isNode(h, v) ==
  /\ v # Null
  /\ typeof(h, v) = "object"
  /\ h[v].type \notin {"undef", "null"}
  /\ h[v].type = "str"

----------------------------------------------------------------------------
(* Array.prototype.splice and indexed assignment on a JS array, 0-based.   *)

SpliceOut(s, i) ==
  IF i < 0 \/ i >= Len(s) THEN s
  ELSE [n \in 1..(Len(s) - 1) |-> IF n <= i THEN s[n] ELSE s[n + 1]]

SpliceIn(s, i, x) ==
  LET at == IF i > Len(s) THEN Len(s) ELSE i
  IN [n \in 1..(Len(s) + 1) |->
        IF n <= at THEN s[n] ELSE IF n = at + 1 THEN x ELSE s[n - 1]]

SetAt(s, i, x) ==
  [n \in 1..(IF i + 1 > Len(s) THEN i + 1 ELSE Len(s)) |->
     IF n = i + 1 THEN x ELSE IF n <= Len(s) THEN s[n] ELSE Null]

HasKey(o, k) == k \in Range(o.keys)

(* parent[key] = v : keeps the key's place, or appends a new own key *)
SetField(o, k, v) ==
  [o EXCEPT !.val[k] = v,
            !.keys = IF HasKey(o, k) THEN o.keys ELSE Append(o.keys, k)]

(* delete parent[key] *)
DeleteField(o, k) ==
  [o EXCEPT !.val[k] = NoVal,
            !.keys = SelectSeq(o.keys, LAMBDA x : x # k)]

(* WalkerBase.replace *)
replace(h, parent, key, index, node) ==
  IF parent = Null \/ key = NullKey THEN h
  ELSE IF index # NullIdx
    THEN [h EXCEPT ![parent].val[key].elems = SetAt(@, index, node)]
    ELSE [h EXCEPT ![parent] = SetField(@, key, OneVal(node))]

(* WalkerBase.insert *)
insert(h, parent, key, index, node) ==
  IF parent = Null \/ key = NullKey THEN h
  ELSE IF index # NullIdx
    THEN [h EXCEPT ![parent].val[key].elems = SpliceIn(@, index, node)]
    ELSE [h EXCEPT ![parent] = SetField(@, key, OneVal(node))]

(* WalkerBase.remove *)
remove(h, parent, key, index) ==
  IF parent = Null \/ key = NullKey THEN h
  ELSE IF index # NullIdx
    THEN [h EXCEPT ![parent].val[key].elems = SpliceOut(@, index)]
    ELSE [h EXCEPT ![parent] = DeleteField(@, key)]

----------------------------------------------------------------------------
(* scope-tracker (src/src/walk.ts 100-716).  A scope key is a JS string,   *)
(* modelled as the sequence of its characters.                             *)

Digits == <<"0", "1", "2", "3", "4", "5", "6", "7", "8", "9">>

(* Number.prototype.toString of a non-negative integer *)
RECURSIVE toString(_)
toString(n) ==
  IF n < 10 THEN <<Digits[n + 1]>>
  ELSE toString(n \div 10) \o <<Digits[(n % 10) + 1]>>

(* Array.prototype.join('-') of an array of numbers *)
RECURSIVE join(_)
join(s) ==
  IF s = <<>> THEN <<>>
  ELSE IF Len(s) = 1 THEN toString(s[1])
  ELSE toString(s[1]) \o <<"-">> \o join(Tail(s))

(* String.prototype.split('-'): the pieces between the separators *)
RECURSIVE split(_)
split(k) ==
  IF \E p \in 1..Len(k) : k[p] = "-"
    THEN LET p == CHOOSE p \in 1..Len(k) :
                    k[p] = "-" /\ \A q \in 1..(p - 1) : k[q] # "-"
         IN <<SubSeq(k, 1, p - 1)>> \o split(SubSeq(k, p + 1, Len(k)))
    ELSE <<k>>

(* Number(s) of a string of decimal digits (Number('') is 0) *)
RECURSIVE Number(_)
Number(s) ==
  IF s = <<>> THEN 0
  ELSE Number(SubSeq(s, 1, Len(s) - 1)) * 10
         + (CHOOSE d \in 0..9 : Digits[d + 1] = s[Len(s)])

(* Array.prototype.slice(0, e); a negative e counts from the end *)
slice(s, e) ==
  LET to == IF e < 0 THEN Len(s) + e ELSE IF e > Len(s) THEN Len(s) ELSE e
  IN SubSeq(s, 1, to)

startsWith(a, b) == Len(b) <= Len(a) /\ SubSeq(a, 1, Len(b)) = b

(* walk.ts 563-565 *)
isChildScope(a, b) == startsWith(a, b) /\ Len(a) > Len(b)

(* A JS Map as a function; get of an absent key is undefined *)
EmptyMap == [k \in {} |-> Null]
MapHas(m, k) == k \in DOMAIN m
MapSet(m, k, v) == [x \in DOMAIN m \cup {k} |-> IF x = k THEN v ELSE m[x]]
MapDelete(m, k) == [x \in DOMAIN m \ {k} |-> m[x]]

(* walk.ts 163-173: a new ScopeTracker(options) *)
ScopeTracker(options) ==
  [scopeIndexStack |-> <<>>, scopeIndexKey |-> <<>>, scopes |-> EmptyMap,
   options |-> options, isFrozen |-> FALSE]

(* walk.ts 567-706: the declaration records.  BaseNode keeps the node the  *)
(* record is made for and the key of the scope it was declared in; the     *)
(* subclasses add the node that their start and end are read from.         *)
BaseNode(type, node, scope) ==
  [type |-> type, node |-> node, scope |-> scope,
   fnNode |-> Null, variableNode |-> Null, importNode |-> Null,
   catchNode |-> Null]

ScopeTrackerIdentifier(node, scope) == BaseNode("Identifier", node, scope)

ScopeTrackerFunctionParam(node, scope, fnNode) ==
  [BaseNode("FunctionParam", node, scope) EXCEPT !.fnNode = fnNode]

ScopeTrackerFunction(node, scope) == BaseNode("Function", node, scope)

ScopeTrackerVariable(node, scope, variableNode) ==
  [BaseNode("Variable", node, scope) EXCEPT !.variableNode = variableNode]

ScopeTrackerImport(node, scope, importNode) ==
  [BaseNode("Import", node, scope) EXCEPT !.importNode = importNode]

ScopeTrackerCatchParam(node, scope, catchNode) ==
  [BaseNode("CatchParam", node, scope) EXCEPT !.catchNode = catchNode]

(* the null that getDeclaration returns when it finds nothing *)
NoDeclaration == BaseNode("null", Null, <<>>)

(* variant: every record reports the range of the node it is made for *)
RangeNode_own(data) == data.node

(* walk.ts 601-697: the node whose start and end the getters of the record *)
(* return                                                                  *)
RangeNode(data) ==
  CASE data.type = "FunctionParam" -> data.fnNode
    [] data.type = "Variable" -> data.variableNode
    [] data.type = "Import" -> data.importNode
    [] data.type = "CatchParam" -> data.catchNode
    [] OTHER -> data.node

start(data) == Kind[RangeNode(data)].start
end(data) == Kind[RangeNode(data)].end

(* walk.ts 593-595 *)
isUnderScope(data, scope) == isChildScope(data.scope, scope)

(* walk.ts 175-177 *)
updateScopeIndexKey(t) ==
  [t EXCEPT !.scopeIndexKey = join(slice(t.scopeIndexStack, 0 - 1))]

(* walk.ts 179-182 *)
pushScope(t) ==
  updateScopeIndexKey([t EXCEPT !.scopeIndexStack = Append(@, 0)])

(* variant: the scope that is left is always forgotten *)
exitedScopes_dropped(t) == MapDelete(t.scopes, t.scopeIndexKey)

(* walk.ts 190-192: the declarations of the scope that is left are deleted *)
(* unless options.preserveExitedScopes is set                              *)
exitedScopes(t) ==
  IF ~t.options.preserveExitedScopes
    THEN MapDelete(t.scopes, t.scopeIndexKey) ELSE t.scopes

(* variant: a frozen tracker does not count the scope it leaves *)
popScope_frozenStill(t) ==
  LET popped == slice(t.scopeIndexStack, 0 - 1)
      counted == IF popped # <<>> /\ ~t.isFrozen
                   THEN [popped EXCEPT ![Len(popped)] = @ + 1] ELSE popped
  IN updateScopeIndexKey(
       [t EXCEPT !.scopeIndexStack = counted, !.scopes = exitedScopes(t)])

(* walk.ts 184-195 *)
popScope(t) ==
  LET popped == slice(t.scopeIndexStack, 0 - 1)
      counted == IF popped # <<>>
                   THEN [popped EXCEPT ![Len(popped)] = @ + 1] ELSE popped
  IN updateScopeIndexKey(
       [t EXCEPT !.scopeIndexStack = counted, !.scopes = exitedScopes(t)])

(* variant: a name that is already declared keeps its record *)
declareIdentifier_keepsFirst(t, name, data) ==
  IF t.isFrozen THEN t
  ELSE LET scope == IF MapHas(t.scopes, t.scopeIndexKey)
                      THEN t.scopes[t.scopeIndexKey] ELSE EmptyMap
       IN [t EXCEPT !.scopes =
             MapSet(@, t.scopeIndexKey,
                    IF MapHas(scope, name) THEN scope
                    ELSE MapSet(scope, name, data))]

(* walk.ts 197-208 *)
declareIdentifier(t, name, data) ==
  IF t.isFrozen THEN t
  ELSE LET scope == IF MapHas(t.scopes, t.scopeIndexKey)
                      THEN t.scopes[t.scopeIndexKey] ELSE EmptyMap
       IN [t EXCEPT !.scopes =
             MapSet(@, t.scopeIndexKey, MapSet(scope, name, data))]

(* walk.ts 429-461: the identifiers of a pattern, in order *)
RECURSIVE getPatternIdentifiers(_)
RECURSIVE collectElements(_)
RECURSIVE collectProperties(_)
getPatternIdentifiers(pattern) ==
  LET k == Kind[pattern]
  IN CASE k.type = "Identifier" -> <<pattern>>
       [] k.type = "AssignmentPattern" -> getPatternIdentifiers(k.left)
       [] k.type = "RestElement" -> getPatternIdentifiers(k.argument)
       [] k.type = "ArrayPattern" -> collectElements(k.elements)
       [] k.type = "ObjectPattern" -> collectProperties(k.properties)
       [] OTHER -> <<>>

(* walk.ts 444-448 *)
collectElements(elements) ==
  IF elements = <<>> THEN <<>>
  ELSE LET element == Head(elements)
       IN (IF element = Null THEN <<>>
           ELSE getPatternIdentifiers(
                  IF Kind[element].type = "RestElement"
                    THEN Kind[element].argument ELSE element))
            \o collectElements(Tail(elements))

(* walk.ts 451-453 *)
collectProperties(properties) ==
  IF properties = <<>> THEN <<>>
  ELSE LET property == Head(properties)
       IN getPatternIdentifiers(
            IF Kind[property].type = "RestElement"
              THEN Kind[property].argument ELSE Kind[property].value)
            \o collectProperties(Tail(properties))

(* walk.ts 216-218: for (const identifier of identifiers) ... *)
RECURSIVE declareAsParameter(_, _, _)
declareAsParameter(t, identifiers, fn) ==
  IF identifiers = <<>> THEN t
  ELSE declareAsParameter(
         declareIdentifier(t, Kind[Head(identifiers)].name,
           ScopeTrackerFunctionParam(Head(identifiers), t.scopeIndexKey, fn)),
         Tail(identifiers), fn)

(* walk.ts 210-219 *)
declareFunctionParameter(t, param, fn) ==
  IF t.isFrozen THEN t
  ELSE declareAsParameter(t, getPatternIdentifiers(param), fn)

(* walk.ts 227-236: for (const identifier of identifiers) ... *)
RECURSIVE declareAsPattern(_, _, _)
declareAsPattern(t, identifiers, parent) ==
  IF identifiers = <<>> THEN t
  ELSE LET identifier == Head(identifiers)
       IN declareAsPattern(
            declareIdentifier(t, Kind[identifier].name,
              IF Kind[parent].type = "VariableDeclaration"
                THEN ScopeTrackerVariable(identifier, t.scopeIndexKey, parent)
              ELSE IF Kind[parent].type = "CatchClause"
                THEN ScopeTrackerCatchParam(identifier, t.scopeIndexKey, parent)
              ELSE ScopeTrackerFunctionParam(identifier, t.scopeIndexKey, parent)),
            Tail(identifiers), parent)

(* walk.ts 221-237 *)
declarePattern(t, pattern, parent) ==
  IF t.isFrozen THEN t
  ELSE declareAsPattern(t, getPatternIdentifiers(pattern), parent)

(* for (const param of node.params) this.declareFunctionParameter(param, node) *)
RECURSIVE declareParams(_, _, _)
declareParams(t, params, fn) ==
  IF params = <<>> THEN t
  ELSE declareParams(declareFunctionParameter(t, Head(params), fn),
                     Tail(params), fn)

(* for (const decl of node.declarations) this.declarePattern(decl.id, node) *)
RECURSIVE declareDeclarations(_, _, _)
declareDeclarations(t, declarations, node) ==
  IF declarations = <<>> THEN t
  ELSE declareDeclarations(declarePattern(t, Kind[Head(declarations)].id, node),
                           Tail(declarations), node)

(* for (const specifier of node.specifiers)                                *)
(*   this.declareIdentifier(specifier.local.name, new ScopeTrackerImport(..)) *)
RECURSIVE declareSpecifiers(_, _, _)
declareSpecifiers(t, specifiers, node) ==
  IF specifiers = <<>> THEN t
  ELSE declareSpecifiers(
         declareIdentifier(t, Kind[Kind[Head(specifiers)].local].name,
           ScopeTrackerImport(Head(specifiers), t.scopeIndexKey, node)),
         Tail(specifiers), node)

(* node.id?.name: the name in the id field, '' if there is none *)
idName(node) == IF Kind[node].id = Null THEN "" ELSE Kind[Kind[node].id].name

(* walk.ts 249-251 and 263-265:                                            *)
(* if (node.id?.name) this.declareIdentifier(.., new ScopeTrackerFunction(node, ..)) *)
declareFunctionName(t, node) ==
  IF idName(node) # ""
    THEN declareIdentifier(t, idName(node),
           ScopeTrackerFunction(node, t.scopeIndexKey))
    ELSE t

(* walk.ts 287-289 and 296-298:                                            *)
(* if (node.id?.name) this.declareIdentifier(.., new ScopeTrackerIdentifier(node.id, ..)) *)
declareClassName(t, node) ==
  IF idName(node) # ""
    THEN declareIdentifier(t, idName(node),
           ScopeTrackerIdentifier(Kind[node].id, t.scopeIndexKey))
    ELSE t

(* variant: a loop's declarations go to the scope around the loop *)
declareLoop_outside(t, init) ==
  pushScope(declareDeclarations(t, Kind[init].declarations, init))

(* walk.ts 319-330: this.pushScope(), then the declarations of the loop's  *)
(* init / left are declared in the new scope                               *)
declareLoop(t, init) ==
  declareDeclarations(pushScope(t), Kind[init].declarations, init)

(* variant: a node of any other kind opens a scope of its own *)
unrecognised_scoped(t) == pushScope(t)

(* walk.ts 240 and 336: the switch statements have no default case, a node *)
(* of any other type falls through them                                    *)
unrecognised(t) == t

(* walk.ts 239-333 *)
processNodeEnter(t, node) ==
  LET k == Kind[node]
  IN CASE k.type \in {"Program", "BlockStatement", "StaticBlock"} ->
            pushScope(t)
       [] k.type = "FunctionDeclaration" ->
            declareParams(pushScope(declareFunctionName(t, node)),
                          k.params, node)
       [] k.type = "FunctionExpression" ->
            declareParams(
              pushScope(declareFunctionName(pushScope(t), node)),
              k.params, node)
       [] k.type = "ArrowFunctionExpression" ->
            declareParams(pushScope(t), k.params, node)
       [] k.type = "VariableDeclaration" ->
            declareDeclarations(t, k.declarations, node)
       [] k.type = "ClassDeclaration" -> declareClassName(t, node)
       [] k.type = "ClassExpression" -> declareClassName(pushScope(t), node)
       [] k.type = "ImportDeclaration" ->
            declareSpecifiers(t, k.specifiers, node)
       [] k.type = "CatchClause" ->
            IF k.param # Null THEN declarePattern(pushScope(t), k.param, node)
            ELSE pushScope(t)
       [] k.type = "ForStatement" ->
            IF k.init # Null /\ Kind[k.init].type = "VariableDeclaration"
              THEN declareLoop(t, k.init)
              ELSE pushScope(t)
       [] k.type \in {"ForOfStatement", "ForInStatement"} ->
            IF k.left # Null /\ Kind[k.left].type = "VariableDeclaration"
              THEN declareLoop(t, k.left)
              ELSE pushScope(t)
       [] OTHER -> unrecognised(t)

(* walk.ts 253, 268, 274, 280, 302, 321-329: processNodeEnter iterates     *)
(* node.params, node.declarations and node.specifiers and reads            *)
(* node.left.type without asking whether the field is there; on a node     *)
(* that lacks it the statement throws a TypeError (what processNodeEnter   *)
(* did before that statement stays done).                                  *)
throwsTypeError(node) ==
  LET k == Kind[node]
  IN CASE k.type \in {"FunctionDeclaration", "FunctionExpression",
                      "ArrowFunctionExpression"} -> "params" \in k.lacks
       [] k.type = "VariableDeclaration" -> "declarations" \in k.lacks
       [] k.type = "ImportDeclaration" -> "specifiers" \in k.lacks
       [] k.type = "ForStatement" ->
            /\ k.init # Null /\ Kind[k.init].type = "VariableDeclaration"
            /\ "declarations" \in Kind[k.init].lacks
       [] k.type \in {"ForOfStatement", "ForInStatement"} ->
            \/ "left" \in k.lacks
            \/ /\ k.left # Null /\ Kind[k.left].type = "VariableDeclaration"
               /\ "declarations" \in Kind[k.left].lacks
       [] OTHER -> FALSE

(* variant: a function expression gives up one scope only *)
processNodeLeave_onePop(t, node) ==
  IF Kind[node].type \in
       {"Program", "BlockStatement", "CatchClause", "FunctionDeclaration",
        "ArrowFunctionExpression", "StaticBlock", "ClassExpression",
        "ForStatement", "ForOfStatement", "ForInStatement",
        "FunctionExpression"}
    THEN popScope(t)
    ELSE t

(* walk.ts 335-354 *)
processNodeLeave(t, node) ==
  CASE Kind[node].type \in
         {"Program", "BlockStatement", "CatchClause", "FunctionDeclaration",
          "ArrowFunctionExpression", "StaticBlock", "ClassExpression",
          "ForStatement", "ForOfStatement", "ForInStatement"} -> popScope(t)
    [] Kind[node].type = "FunctionExpression" -> popScope(popScope(t))
    [] OTHER -> unrecognised(t)

(* The scopes the lookups of isDeclared and getDeclaration try, in order:  *)
(* indices.slice(0, i).join('-') for i = indices.length down to 0.         *)
RECURSIVE LookupKeys(_, _)
LookupKeys(indices, i) ==
  IF i < 0 THEN <<>>
  ELSE <<join(slice(indices, i))>> \o LookupKeys(indices, i - 1)

indicesOf(key) == [p \in 1..Len(split(key)) |-> Number(split(key)[p])]

(* walk.ts 360-372 *)
isDeclared(t, name) ==
  IF t.scopeIndexKey = <<>>
    THEN MapHas(t.scopes, <<>>) /\ MapHas(t.scopes[<<>>], name)
    ELSE LET indices == indicesOf(t.scopeIndexKey)
             keys == LookupKeys(indices, Len(indices))
         IN \E p \in 1..Len(keys) :
              MapHas(t.scopes, keys[p]) /\ MapHas(t.scopes[keys[p]], name)

(* variant: only the current scope is searched *)
getDeclaration_currentOnly(t, name) ==
  IF MapHas(t.scopes, t.scopeIndexKey)
       /\ MapHas(t.scopes[t.scopeIndexKey], name)
    THEN t.scopes[t.scopeIndexKey][name]
    ELSE NoDeclaration

(* walk.ts 378-391: the first scope of the lookup order that holds name;   *)
(* null if there is none                                                   *)
getDeclaration(t, name) ==
  IF t.scopeIndexKey = <<>>
    THEN IF MapHas(t.scopes, <<>>) /\ MapHas(t.scopes[<<>>], name)
           THEN t.scopes[<<>>][name] ELSE NoDeclaration
    ELSE LET indices == indicesOf(t.scopeIndexKey)
             keys == LookupKeys(indices, Len(indices))
             hits == {p \in 1..Len(keys) :
                        MapHas(t.scopes, keys[p])
                          /\ MapHas(t.scopes[keys[p]], name)}
         IN IF hits = {} THEN NoDeclaration
            ELSE t.scopes[keys[CHOOSE p \in hits : \A q \in hits : p <= q]][name]

(* walk.ts 396-398 *)
getCurrentScope(t) == t.scopeIndexKey

(* walk.ts 412-414 *)
isCurrentScopeUnder(t, scope) == isChildScope(t.scopeIndexKey, scope)

(* variant: freeze() only resets the position *)
freeze_resetOnly(t) == updateScopeIndexKey([t EXCEPT !.scopeIndexStack = <<>>])

(* walk.ts 422-426 *)
freeze(t) ==
  updateScopeIndexKey([t EXCEPT !.isFrozen = TRUE, !.scopeIndexStack = <<>>])

----------------------------------------------------------------------------
(* WalkerBase constructor and fields: the handlers, the three directive   *)
(* flags, and the ctx object that traverse() creates for its callbacks.    *)

WalkerSync(enter, leave, ast) ==
  [enter |-> enter, leave |-> leave,
   _skip |-> FALSE, _remove |-> FALSE, _replacement |-> Null,
   ctxKey |-> NullKey, ctxIndex |-> NullIdx, ast |-> ast,
   scopeTracker |-> FALSE]

(* variant: the current node starts out as null *)
Activation_noCurrent(w, input, parent, key, index) ==
  [w |-> w, input |-> input, parent |-> parent, key |-> key, index |-> index,
   pc |-> "start", currentNode |-> Null,
   removedInEnter |-> FALSE, skipChildren |-> FALSE,
   sv_skip |-> FALSE, sv_remove |-> FALSE, sv_replacement |-> Null,
   ks |-> <<>>, kp |-> 1, i |-> 0]

(* One activation of _walk(input, parent, key, index) with its locals.     *)
(* sv_* are the constants _skip/_remove/_replacement in which _walk keeps  *)
(* the flags while a callback runs; ks/kp/i are the position of the two    *)
(* child loops (for k in currentNode; for i < node.length).                *)
Activation(w, input, parent, key, index) ==
  [w |-> w, input |-> input, parent |-> parent, key |-> key, index |-> index,
   pc |-> "start", currentNode |-> input,
   removedInEnter |-> FALSE, skipChildren |-> FALSE,
   sv_skip |-> FALSE, sv_remove |-> FALSE, sv_replacement |-> Null,
   ks |-> <<>>, kp |-> 1, i |-> 0]

(* History only: one entry of the log.  ph is the phase ("enter" or       *)
(* "leave") of the callback invocation the entry belongs to, sibs what the *)
(* parent holds under key when the entry is written: the array, or for a   *)
(* single child the one value (nothing if the key is gone).                *)
Sibs(h, parent, key, index) ==
  IF parent = Null \/ key = NullKey THEN <<>>
  ELSE IF index # NullIdx THEN h[parent].val[key].elems
  ELSE IF HasKey(h[parent], key) THEN <<h[parent].val[key].ref>> ELSE <<>>

Entry(w, op, ph, f, arg, h) ==
  [w |-> w, op |-> op, ph |-> ph, node |-> f.input, parent |-> f.parent,
   key |-> f.key, index |-> f.index, arg |-> arg,
   sibs |-> Sibs(h, f.parent, f.key, f.index)]

Top == stack[Len(stack)]
Rest == SubSeq(stack, 1, Len(stack) - 1)
SetTop(f) == [stack EXCEPT ![Len(stack)] = f]

(* The next child the loops of _walk reach from position (kp, i): own keys *)
(* in enumeration order (a key deleted meanwhile is not visited), array    *)
(* elements by ascending index, everything that is not a node passed over. *)
RECURSIVE FindNext(_, _, _, _, _)
FindNext(h, cur, ks, kp, i) ==
  IF kp > Len(ks) THEN [found |-> FALSE, kp |-> kp, i |-> 0, child |-> Null, index |-> NullIdx]
  ELSE LET k == ks[kp]
           o == h[cur]
           v == o.val[k]
       IN IF ~HasKey(o, k) THEN FindNext(h, cur, ks, kp + 1, 0)
          ELSE IF v.kind = "arr"
            THEN IF i >= Len(v.elems) THEN FindNext(h, cur, ks, kp + 1, 0)
                 ELSE IF isNode(h, v.elems[i + 1])
                   THEN [found |-> TRUE, kp |-> kp, i |-> i,
                         child |-> v.elems[i + 1], index |-> i]
                   ELSE FindNext(h, cur, ks, kp, i + 1)
            ELSE IF isNode(h, v.ref)
                   THEN [found |-> TRUE, kp |-> kp, i |-> 0,
                         child |-> v.ref, index |-> NullIdx]
                   ELSE FindNext(h, cur, ks, kp + 1, 0)

(* variant: skip() does not hold for a node that was replaced *)
WalksChildren_replaced(f) ==
  f.currentNode # Null /\ (~f.skipChildren \/ f.currentNode # f.input)

(* sync.ts 92: if (!skipChildren && currentNode) *)
WalksChildren(f) == ~f.skipChildren /\ f.currentNode # Null

(* variant: the loop looks again at the element before the position *)
NextOf_previous(f) ==
  FindNext(heap, f.currentNode, f.ks, f.kp, IF f.i > 0 THEN f.i - 1 ELSE 0)

(* sync.ts 93-113: the child the loops of the activation reach next *)
NextOf(f) == FindNext(heap, f.currentNode, f.ks, f.kp, f.i)

(* variant: the array loop steps back whenever the call returns another    *)
(* node than the one it was made for                                       *)
Resume_changed(p, f, v) ==
  IF f.index # NullIdx
    THEN [p EXCEPT !.i = IF v # f.input THEN f.index ELSE f.index + 1]
    ELSE [p EXCEPT !.kp = @ + 1, !.i = 0]

(* `return currentNode`: the activation f ends with value v.  The caller is *)
(* either the array loop (which steps back by one when v is null and then  *)
(* steps on), the single-child branch, or traverse() itself.               *)
Resume(p, f, v) ==
  IF f.index # NullIdx
    THEN [p EXCEPT !.i = IF v = Null THEN f.index ELSE f.index + 1]
    ELSE [p EXCEPT !.kp = @ + 1, !.i = 0]

(* traverse() calls _walk with parent null; every recursive call passes    *)
(* the current node.                                                       *)
IsBase(f) == f.parent = Null

Return(f, v, h, ws, lg) ==
  /\ heap' = h
  /\ walkers' = ws
  /\ log' = Append(lg, Entry(f.w, "return", "return", f, v, h))
  /\ IF IsBase(f)
       THEN /\ stack' = Rest
            /\ results' = [results EXCEPT ![f.w] = [done |-> TRUE, value |-> v]]
       ELSE /\ stack' = [Rest EXCEPT ![Len(stack) - 1] = Resume(@, f, v)]
            /\ UNCHANGED results
  /\ UNCHANGED <<budget, fresh>>

----------------------------------------------------------------------------
(* parseAndWalk has not been called *)
NoCall ==
  [sourceFilename |-> <<>>, parseOptions |-> [lang |-> "absent", sourceType |-> "absent"],
   lang |-> "undefined", sourceType |-> "undefined"]

(* walk(input, {enter, leave}) has just constructed its WalkerSync and     *)
(* called traverse(input): _walk(input, null, null, null) is about to run. *)

Init ==
  /\ Kind = SyntaxOf
  /\ heap = Tree0
  /\ \E e \in BOOLEAN, l \in BOOLEAN :
        walkers = <<WalkerSync(e, l, Root)>>
  /\ stack = <<Activation(1, Root, Null, NullKey, NullIdx)>>
  /\ results = <<[done |-> FALSE, value |-> Null]>>
  /\ log = <<>>
  /\ budget = MaxDirectives
  /\ fresh = Replacements
  /\ tracker = ScopeTracker([preserveExitedScopes |-> FALSE])
  /\ tlog = <<>>
  /\ undeclaredIdentifiers = <<>>
  /\ parseCall = NoCall

Running == Len(stack) > 0

(* sync.ts 58-69 / 118-126: what _walk does to the walker around a call of *)
(* the enter / the leave handler: the flags are reset, ctx is set.         *)
BeforeEnter(wk, f) ==
  [wk EXCEPT !._skip = FALSE, !._remove = FALSE, !._replacement = Null,
             !.ctxKey = f.key, !.ctxIndex = f.index]

(* variant: ctx is only set for the enter handler *)
BeforeLeave_staleCtx(wk, f) ==
  [wk EXCEPT !._remove = FALSE, !._replacement = Null]

BeforeLeave(wk, f) ==
  [wk EXCEPT !._remove = FALSE, !._replacement = Null,
             !.ctxKey = f.key, !.ctxIndex = f.index]

(* sync.ts 86-88 / 143-144: the flags are put back *)
AfterEnter(wk, f) ==
  [wk EXCEPT !._skip = f.sv_skip, !._remove = f.sv_remove,
             !._replacement = f.sv_replacement]

AfterLeave(wk, f) ==
  [wk EXCEPT !._remove = f.sv_remove, !._replacement = f.sv_replacement]

(* sync.ts 53 / 116: this.scopeTracker?.processNodeEnter(input) and        *)
(* this.scopeTracker?.processNodeLeave(input): the call is made if a       *)
(* tracker is attached.  Notified is the log with the call recorded, tlog  *)
(* keeps the tracker before and after it.                                  *)
Notified(wk, f, op, ph) ==
  IF wk.scopeTracker THEN Append(log, Entry(f.w, op, ph, f, Null, heap))
  ELSE log

Notify(wk, f, op, node, after) ==
  IF wk.scopeTracker
    THEN /\ tracker' = after
         /\ tlog' = Append(tlog, [w |-> f.w, op |-> op, node |-> node,
                                  at |-> Len(log) + 1,
                                  pre |-> tracker, post |-> after])
    ELSE UNCHANGED <<tracker, tlog>>

(* variant: the fields are taken last to first *)
ownKeys_reversed(h, n) ==
  [i \in 1..Len(h[n].keys) |-> h[n].keys[Len(h[n].keys) - i + 1]]

(* sync.ts 93: for (const k in currentNode) - the own fields of the node,  *)
(* in the order the object enumerates them                                 *)
ownKeys(h, n) == h[n].keys

(* sync.ts 49-69: classify the input, notify the tracker (an error it      *)
(* throws leaves _walk, every _walk around it and traverse), initialise    *)
(* the locals and, if an enter handler is registered, save and reset the   *)
(* flags, set ctx and call the handler (which stays open until             *)
(* EnterReturn).                                                           *)
WalkEnter ==
  /\ Running
  /\ Top.pc = "start"
  /\ LET f == Top
         wk == walkers[f.w]
         lg == Notified(wk, f, "processNodeEnter", "enter")
     IN IF ~isNode(heap, f.input)
          THEN Return(f, Null, heap, walkers, log) /\ UNCHANGED <<tracker, tlog>>
          ELSE /\ Notify(wk, f, "processNodeEnter", f.input,
                         processNodeEnter(tracker, f.input))
               /\ IF wk.scopeTracker /\ throwsTypeError(f.input)
                    THEN /\ stack' = <<>>
                         /\ log' = Append(lg, Entry(f.w, "throw", "enter", f, Null, heap))
                         /\ UNCHANGED <<heap, walkers, results, budget, fresh>>
                    ELSE IF wk.enter
                    THEN /\ stack' = SetTop([f EXCEPT !.pc = "inEnter",
                                               !.sv_skip = wk._skip,
                                               !.sv_remove = wk._remove,
                                               !.sv_replacement = wk._replacement])
                         /\ walkers' = [walkers EXCEPT ![f.w] = BeforeEnter(wk, f)]
                         /\ log' = Append(lg, Entry(f.w, "enter", "enter", f, Null, heap))
                         /\ UNCHANGED <<heap, results, budget, fresh>>
                    ELSE /\ stack' = SetTop([f EXCEPT !.pc = "children",
                                               !.ks = ownKeys(heap, f.input)])
                         /\ log' = lg
                         /\ UNCHANGED <<heap, walkers, results, budget, fresh>>
  /\ UNCHANGED outer

(* variant: a second skip() takes the first one back *)
ctx_skip_toggle(wk) == [wk EXCEPT !._skip = ~@]

(* base.ts contextEnter: the three context methods only set a flag *)
ctx_skip(wk) == [wk EXCEPT !._skip = TRUE]
ctx_remove(wk) == [wk EXCEPT !._remove = TRUE]

(* variant: replace() keeps a replacement that is already pending *)
ctx_replace_first(wk, node) ==
  [wk EXCEPT !._replacement = IF @ = Null THEN node ELSE @]

ctx_replace(wk, node) == [wk EXCEPT !._replacement = node]

Phase(f) == IF f.pc = "inEnter" THEN "enter" ELSE "leave"

(* The callbacks of a nested walk over a part of the outer tree only read  *)
(* it (they may skip); the callbacks of any other walk are unrestricted.   *)
MayEdit(w) == w = 1 \/ walkers[w].ast = OtherRoot

(* The leaf objects 9 and 14 are interchangeable: 9 is handed out first *)
FreshChoices == {m \in fresh : m = 14 => 9 \notin fresh}

(* the open enter callback calls this.skip() *)
CtxSkip ==
  /\ Running
  /\ Top.pc = "inEnter"
  /\ budget > 0
  /\ walkers' = [walkers EXCEPT ![Top.w] = ctx_skip(@)]
  /\ log' = Append(log, Entry(Top.w, "skip", Phase(Top), Top, Null, heap))
  /\ budget' = budget - 1
  /\ UNCHANGED <<heap, stack, results, fresh, tracker, tlog>>
  /\ UNCHANGED outer

(* the open enter or leave callback calls this.remove() *)
CtxRemove ==
  /\ Running
  /\ Top.pc \in {"inEnter", "inLeave"}
  /\ budget > 0
  /\ MayEdit(Top.w)
  /\ walkers' = [walkers EXCEPT ![Top.w] = ctx_remove(@)]
  /\ log' = Append(log, Entry(Top.w, "remove", Phase(Top), Top, Null, heap))
  /\ budget' = budget - 1
  /\ UNCHANGED <<heap, stack, results, fresh, tracker, tlog>>
  /\ UNCHANGED outer

(* the open enter or leave callback calls this.replace(m) with an object   *)
(* it has built and not used before                                        *)
CtxReplace ==
  /\ Running
  /\ Top.pc \in {"inEnter", "inLeave"}
  /\ budget > 0
  /\ MayEdit(Top.w)
  /\ \E m \in FreshChoices :
       /\ walkers' = [walkers EXCEPT ![Top.w] = ctx_replace(@, m)]
       /\ log' = Append(log, Entry(Top.w, "replace", Phase(Top), Top, m, heap))
       /\ fresh' = fresh \ {m}
  /\ budget' = budget - 1
  /\ UNCHANGED <<heap, stack, results, tracker, tlog>>
  /\ UNCHANGED outer

(* variant: the skip flag is read after it has been restored *)
SkipsChildren_late(wk, f) == f.sv_skip

(* sync.ts 82-84: skipChildren is the skip flag as the handler left it *)
SkipsChildren(wk, f) == wk._skip

(* variant: a pending replacement counts whether or not remove() was called *)
ReplacesNode_always(wk) == wk._replacement # Null

(* sync.ts 71 and 128: a pending replacement counts unless remove() was    *)
(* called as well                                                          *)
ReplacesNode(wk) == wk._replacement # Null /\ ~wk._remove

(* variant: the walk goes on with the original node after replace() *)
EnterContinuation_keeps(wk, f) ==
  IF wk._remove THEN Null ELSE f.currentNode

(* sync.ts 72 and 78: the node that _walk goes on with after the enter     *)
(* handler                                                                 *)
EnterContinuation(wk, f) ==
  IF wk._remove THEN Null
  ELSE IF ReplacesNode(wk) THEN wk._replacement ELSE f.currentNode

(* variant: a replacement at leave is written but not returned *)
LeaveContinuation_ignores(wk, f) ==
  IF wk._remove THEN Null ELSE f.currentNode

(* sync.ts 129 and 139: the node that _walk returns after the leave handler *)
LeaveContinuation(wk, f) ==
  IF wk._remove THEN Null
  ELSE IF ReplacesNode(wk) THEN wk._replacement ELSE f.currentNode

(* variant: a replacement at leave is always written over the slot *)
Reinstall_overwrites(h, f, node) ==
  replace(h, f.parent, f.key, f.index, node)

(* sync.ts 130-135: a replacement at leave is inserted if the node was     *)
(* removed at enter, written over the slot otherwise                       *)
Reinstall(h, f, node) ==
  IF f.removedInEnter
    THEN insert(h, f.parent, f.key, f.index, node)
    ELSE replace(h, f.parent, f.key, f.index, node)

(* sync.ts 71-84: what the directives of the enter handler do to the tree  *)
(* and to the locals of _walk                                              *)
ApplyEnter(h, f, wk) ==
  LET h1 == IF ReplacesNode(wk)
              THEN replace(h, f.parent, f.key, f.index, wk._replacement)
              ELSE h
      w1 == IF ReplacesNode(wk)
              THEN <<Entry(f.w, "w_replace", "enter", f, wk._replacement, h1)>>
              ELSE <<>>
      h2 == IF wk._remove THEN remove(h1, f.parent, f.key, f.index) ELSE h1
      w2 == IF wk._remove
              THEN <<Entry(f.w, "w_remove", "enter", f, Null, h2)>>
              ELSE <<>>
  IN [heap |-> h2,
      currentNode |-> EnterContinuation(wk, f),
      removedInEnter |-> wk._remove,
      skipChildren |-> SkipsChildren(wk, f),
      writes |-> w1 \o w2]

(* sync.ts 128-141: the same for the leave handler *)
ApplyLeave(h, f, wk) ==
  LET h1 == IF ReplacesNode(wk) THEN Reinstall(h, f, wk._replacement) ELSE h
      w1 == IF ReplacesNode(wk)
              THEN <<Entry(f.w, IF f.removedInEnter THEN "w_insert" ELSE "w_replace",
                           "leave", f, wk._replacement, h1)>>
              ELSE <<>>
      h2 == IF wk._remove THEN remove(h1, f.parent, f.key, f.index) ELSE h1
      w2 == IF wk._remove
              THEN <<Entry(f.w, "w_remove", "leave", f, Null, h2)>>
              ELSE <<>>
  IN [heap |-> h2,
      currentNode |-> LeaveContinuation(wk, f),
      writes |-> w1 \o w2]

(* sync.ts 71-92: what _walk does once the enter handler has returned: it  *)
(* applies the directives, restores the flags and sets up the loop over    *)
(* the current node's keys.                                                *)
Entered ==
  /\ Running
  /\ Top.pc = "inEnter"
  /\ LET f == Top
         wk == walkers[f.w]
         r == ApplyEnter(heap, f, wk)
     IN /\ heap' = r.heap
        /\ log' = log \o r.writes
        /\ stack' = SetTop([f EXCEPT !.pc = "children",
                              !.currentNode = r.currentNode,
                              !.removedInEnter = r.removedInEnter,
                              !.skipChildren = r.skipChildren,
                              !.ks = IF r.currentNode # Null
                                       THEN ownKeys(r.heap, r.currentNode) ELSE <<>>])
        /\ walkers' = [walkers EXCEPT ![f.w] = AfterEnter(wk, f)]
        /\ UNCHANGED <<results, budget, fresh, tracker, tlog>>

(* the enter handler of a walk returns; it has written nothing of its own *)
EnterReturn == Entered /\ UNCHANGED outer

(* sync.ts 92-114: the loops reach the next child and call _walk on it *)
WalkChild ==
  /\ Running
  /\ Top.pc = "children"
  /\ WalksChildren(Top)
  /\ NextOf(Top).found
  /\ LET f == Top
         nx == NextOf(f)
     IN stack' = Append(SetTop([f EXCEPT !.kp = nx.kp, !.i = nx.i]),
                        Activation(f.w, nx.child, f.currentNode,
                                   f.ks[nx.kp], nx.index))
  /\ UNCHANGED <<heap, walkers, results, log, budget, fresh, tracker, tlog>>
  /\ UNCHANGED outer

(* variant: the tracker is told of the node that is current at leave *)
LeaveSubject_current(f) ==
  IF f.currentNode # Null THEN f.currentNode ELSE f.input

(* sync.ts 116: processNodeLeave is given input, the node _walk was called *)
(* with, whatever the enter handler made of it                             *)
LeaveSubject(f) == f.input

(* variant: no leave call for a node that was removed at enter *)
CallsLeave_unlessRemoved(wk, f) == wk.leave /\ ~f.removedInEnter

(* sync.ts 118: the leave handler is called whenever one is registered *)
CallsLeave(wk, f) == wk.leave

(* sync.ts 116-126 (and 147 without a leave handler): the children are     *)
(* done or were not to be walked; call the leave handler, which stays open *)
(* until LeaveReturn.                                                      *)
WalkLeave ==
  /\ Running
  /\ Top.pc = "children"
  /\ ~(WalksChildren(Top) /\ NextOf(Top).found)
  /\ LET f == Top
         wk == walkers[f.w]
         lg == Notified(wk, f, "processNodeLeave", "leave")
     IN /\ Notify(wk, f, "processNodeLeave", LeaveSubject(f),
                  processNodeLeave(tracker, LeaveSubject(f)))
        /\ IF CallsLeave(wk, f)
             THEN /\ stack' = SetTop([f EXCEPT !.pc = "inLeave",
                                        !.sv_remove = wk._remove,
                                        !.sv_replacement = wk._replacement])
                  /\ walkers' = [walkers EXCEPT ![f.w] = BeforeLeave(wk, f)]
                  /\ log' = Append(lg, Entry(f.w, "leave", "leave", f, Null, heap))
                  /\ UNCHANGED <<heap, results, budget, fresh>>
             ELSE Return(f, f.currentNode, heap, walkers, lg)
  /\ UNCHANGED outer

(* sync.ts 128-147: the leave handler has returned; apply its directives,  *)
(* restore the flags and return the current node to the caller.            *)
LeaveReturn ==
  /\ Running
  /\ Top.pc = "inLeave"
  /\ LET f == Top
         wk == walkers[f.w]
         r == ApplyLeave(heap, f, wk)
     IN /\ Return(f, r.currentNode, r.heap,
                  [walkers EXCEPT ![f.w] = AfterLeave(wk, f)], log \o r.writes)
        /\ UNCHANGED <<tracker, tlog>>
  /\ UNCHANGED outer

(* variant: walk() sets up again the walker that is already there *)
walk_shared(ws, input, enter, leave) ==
  [ws EXCEPT ![Len(ws)] = WalkerSync(enter, leave, input)]

(* walk.ts 30-40: walk(input, options) constructs a new WalkerSync *)
walk(ws, input, enter, leave) == Append(ws, WalkerSync(enter, leave, input))

(* A callback of a running traversal calls walk(x, {enter, leave?}) on the  *)
(* node it was given or on an unrelated tree; the nested traversal runs to *)
(* completion before the callback goes on.                                 *)
NestedWalk ==
  /\ Running
  /\ Top.pc \in {"inEnter", "inLeave"}
  /\ budget > 0
  /\ \E x \in {Top.input, OtherRoot}, e \in {TRUE}, l \in BOOLEAN :
       LET ws == walk(walkers, x, e, l)
           w == Len(ws)
       IN /\ walkers' = ws
          /\ stack' = Append(stack, Activation(w, x, Null, NullKey, NullIdx))
          /\ results' = [n \in 1..w |-> IF n = w \/ n > Len(results)
                                          THEN [done |-> FALSE, value |-> Null]
                                          ELSE results[n]]
  /\ budget' = budget - 1
  /\ UNCHANGED <<heap, log, fresh, tracker, tlog>>
  /\ UNCHANGED outer

Next ==
  \/ WalkEnter
  \/ CtxSkip
  \/ CtxRemove
  \/ CtxReplace
  \/ EnterReturn
  \/ WalkChild
  \/ WalkLeave
  \/ LeaveReturn

Spec == Init /\ [][Next]_vars

(* walk(input, handlers) with at least one of enter and leave registered:  *)
(* the walks in which a callback can issue a directive                     *)
InitH == Init /\ (walkers[1].enter \/ walkers[1].leave)

SpecH == InitH /\ [][Next]_vars

(* walk(input, { enter, leave }) whose callbacks issue up to              *)
(* MaxDirectivesE directives.  JavaScript runs the call to completion: a   *)
(* step of the traversal that can be taken is taken (sync.ts 44-151 has no *)
(* await and no yield), which is weak fairness for Next.                   *)
InitE ==
  /\ Kind = SyntaxOf
  /\ heap = Tree0
  /\ \E e \in BOOLEAN, l \in BOOLEAN :
        walkers = <<WalkerSync(e, l, Root)>>
  /\ stack = <<Activation(1, Root, Null, NullKey, NullIdx)>>
  /\ results = <<[done |-> FALSE, value |-> Null]>>
  /\ log = <<>>
  /\ budget = MaxDirectivesE
  /\ fresh = Replacements
  /\ tracker = ScopeTracker([preserveExitedScopes |-> FALSE])
  /\ tlog = <<>>
  /\ undeclaredIdentifiers = <<>>
  /\ parseCall = NoCall

SpecE == InitE /\ [][Next]_vars /\ WF_vars(Next)

(* The tree of Tree0 in which the object 7, which a callback may pass to   *)
(* replace(), has two fields with a child each: body = [8] and arg = 4.    *)
TreeO ==
  [Tree0 EXCEPT ![7] = Obj("str", <<"body", "arg">>,
                           [body |-> ArrVal(<<8>>), arg |-> OneVal(4)])]

ReplacementsO == {7, 9}

(* walk(root, handlers) over that tree; a callback may call replace() *)
InitO ==
  /\ Kind = SyntaxOf
  /\ heap = TreeO
  /\ \E e \in BOOLEAN, l \in BOOLEAN :
        walkers = <<WalkerSync(e, l, Root)>>
  /\ stack = <<Activation(1, Root, Null, NullKey, NullIdx)>>
  /\ results = <<[done |-> FALSE, value |-> Null]>>
  /\ log = <<>>
  /\ budget = MaxDirectivesO
  /\ fresh = ReplacementsO
  /\ tracker = ScopeTracker([preserveExitedScopes |-> FALSE])
  /\ tlog = <<>>
  /\ undeclaredIdentifiers = <<>>
  /\ parseCall = NoCall

(* walk.ts 30-40: once the walk has returned, walk() is called again on    *)
(* the same input with the same handlers, which issue no directive         *)
WalkTwice ==
  /\ ~Running
  /\ Len(walkers) = 1
  /\ LET ws == walk(walkers, walkers[1].ast, walkers[1].enter, walkers[1].leave)
     IN /\ walkers' = ws
        /\ stack' = <<Activation(Len(ws), walkers[1].ast, Null, NullKey, NullIdx)>>
        /\ results' = Append(results, [done |-> FALSE, value |-> Null])
  /\ UNCHANGED <<heap, log, budget, fresh, tracker, tlog>>
  /\ UNCHANGED outer

NextO ==
  \/ WalkEnter
  \/ CtxReplace
  \/ EnterReturn
  \/ WalkChild
  \/ WalkLeave
  \/ LeaveReturn
  \/ WalkTwice

SpecO == InitO /\ [][NextO]_vars

(* The same walk, whose callbacks may also call walk() again *)
InitR ==
  /\ Kind = SyntaxOf
  /\ heap = Tree0
  /\ \E e \in BOOLEAN, l \in BOOLEAN :
        walkers = <<WalkerSync(e, l, RootR)>>
  /\ stack = <<Activation(1, RootR, Null, NullKey, NullIdx)>>
  /\ results = <<[done |-> FALSE, value |-> Null]>>
  /\ log = <<>>
  /\ budget = MaxDirectivesR
  /\ fresh = Replacements
  /\ tracker = ScopeTracker([preserveExitedScopes |-> FALSE])
  /\ tlog = <<>>
  /\ undeclaredIdentifiers = <<>>
  /\ parseCall = NoCall

NextR == Next \/ NestedWalk

SpecR == InitR /\ [][NextR]_vars

(* walk.ts 30-40: walk(input, {enter, leave, scopeTracker}) *)
walkTracked(ws, input, enter, leave) ==
  Append(ws, [WalkerSync(enter, leave, input) EXCEPT !.scopeTracker = TRUE])

(* A walk with a scope tracker attached, over the typed tree or over the   *)
(* if statement alone; the tracker was built with or without the option.  *)
InitT ==
  /\ Kind = SyntaxOf
  /\ heap = TreeT
  /\ \E r \in {RootT, RootIf}, e \in BOOLEAN, l \in BOOLEAN :
        /\ walkers = walkTracked(<<>>, r, e, l)
        /\ stack = <<Activation(1, r, Null, NullKey, NullIdx)>>
  /\ results = <<[done |-> FALSE, value |-> Null]>>
  /\ log = <<>>
  /\ budget = MaxDirectivesT
  /\ fresh = ReplacementsT
  /\ \E p \in BOOLEAN : tracker = ScopeTracker([preserveExitedScopes |-> p])
  /\ tlog = <<>>
  /\ undeclaredIdentifiers = <<>>
  /\ parseCall = NoCall

(* walk.ts 537: between two traversals the caller freezes the tracker *)
Freeze ==
  /\ ~Running
  /\ ~tracker.isFrozen
  /\ tracker' = freeze(tracker)
  /\ tlog' = Append(tlog, [w |-> Len(walkers), op |-> "freeze", node |-> Null,
                           at |-> Len(log),
                           pre |-> tracker, post |-> freeze(tracker)])
  /\ UNCHANGED <<heap, walkers, stack, results, log, budget, fresh>>
  /\ UNCHANGED outer

(* walk.ts 532-547: a pass made only to collect declarations (no handlers) *)
(* is followed by another pass over the same tree with the same tracker.   *)
WalkAgain ==
  /\ ~Running
  /\ Len(walkers) < MaxWalks
  /\ \A w \in 1..Len(walkers) : ~walkers[w].enter /\ ~walkers[w].leave
  /\ \E e \in BOOLEAN, l \in BOOLEAN :
       LET ws == walkTracked(walkers, walkers[1].ast, e, l)
       IN /\ walkers' = ws
          /\ stack' = <<Activation(Len(ws), walkers[1].ast, Null, NullKey, NullIdx)>>
          /\ results' = Append(results, [done |-> FALSE, value |-> Null])
  /\ UNCHANGED <<heap, log, budget, fresh, tracker, tlog>>
  /\ UNCHANGED outer

NextT == Next \/ Freeze \/ WalkAgain

SpecT == InitT /\ [][NextT]_vars

(* A walk with a scope tracker attached whose callbacks may issue          *)
(* MaxDirectivesD directives, over the typed tree or the if statement.     *)
InitD ==
  /\ Kind = SyntaxOf
  /\ heap = TreeT
  /\ \E r \in {RootT, RootIf}, e \in BOOLEAN, l \in BOOLEAN :
        /\ walkers = walkTracked(<<>>, r, e, l)
        /\ stack = <<Activation(1, r, Null, NullKey, NullIdx)>>
  /\ results = <<[done |-> FALSE, value |-> Null]>>
  /\ log = <<>>
  /\ budget = MaxDirectivesD
  /\ fresh = ReplacementsT
  /\ \E p \in BOOLEAN : tracker = ScopeTracker([preserveExitedScopes |-> p])
  /\ tlog = <<>>
  /\ undeclaredIdentifiers = <<>>
  /\ parseCall = NoCall

SpecD == InitD /\ [][Next]_vars

(* The tracker on its own, driven through processNodeEnter and            *)
(* processNodeLeave the way a traversal drives it (sync.ts 53, 116) over   *)
(* trees of nested block statements with leaves of every kind: stack holds *)
(* the nodes entered and not yet left.                                     *)
Block == 22
KindNodes == 21..35

InitK ==
  /\ Kind = SyntaxOf
  /\ heap = TreeT
  /\ walkers = <<>>
  /\ stack = <<>>
  /\ results = <<>>
  /\ log = <<>>
  /\ budget = 0
  /\ fresh = {}
  /\ \E p \in BOOLEAN : tracker = ScopeTracker([preserveExitedScopes |-> p])
  /\ tlog = <<>>
  /\ undeclaredIdentifiers = <<>>
  /\ parseCall = NoCall

ProcessEnter ==
  /\ Len(stack) < MaxDepth
  /\ \A d \in 1..Len(stack) : stack[d].input = Block
  /\ \A d \in 1..Len(tracker.scopeIndexStack) :
        tracker.scopeIndexStack[d] <= MaxOrdinal
  /\ \E n \in KindNodes :
       /\ tracker' = processNodeEnter(tracker, n)
       /\ stack' = Append(stack, Activation(1, n, Null, NullKey, NullIdx))
  /\ UNCHANGED <<heap, walkers, results, log, budget, fresh, tlog>>
  /\ UNCHANGED outer

ProcessLeave ==
  /\ Len(stack) > 0
  /\ tracker' = processNodeLeave(tracker, Top.input)
  /\ stack' = Rest
  /\ UNCHANGED <<heap, walkers, results, log, budget, fresh, tlog>>
  /\ UNCHANGED outer

NextK == ProcessEnter \/ ProcessLeave

SpecK == InitK /\ [][NextK]_vars

(* walk(input, { enter, leave, scopeTracker }) over the tree with partially *)
(* shaped nodes or over one of its statements, with or without a tracker;   *)
(* a callback may put the hand-built block 411 in the place of a node.      *)
InitP ==
  /\ Kind = SyntaxOf
  /\ heap = TreeP
  /\ \E r \in {RootP, 401, 403, 405, 407, 408, 410},
        e \in BOOLEAN, l \in BOOLEAN, st \in BOOLEAN :
        /\ walkers = IF st THEN walkTracked(<<>>, r, e, l)
                     ELSE <<WalkerSync(e, l, r)>>
        /\ stack = <<Activation(1, r, Null, NullKey, NullIdx)>>
  /\ results = <<[done |-> FALSE, value |-> Null]>>
  /\ log = <<>>
  /\ budget = MaxDirectivesT
  /\ fresh = ReplacementsP
  /\ tracker = ScopeTracker([preserveExitedScopes |-> FALSE])
  /\ tlog = <<>>
  /\ undeclaredIdentifiers = <<>>
  /\ parseCall = NoCall

SpecP == InitP /\ [][Next]_vars

----------------------------------------------------------------------------
(* getUndeclaredIdentifiersInFunction (walk.ts 463-549) *)

(* Array.prototype.includes *)
includes(s, x) == \E i \in DOMAIN s : s[i] = x

(* walk.ts 463-520 *)
isBindingIdentifier(node, parent) ==
  IF parent = Null \/ Kind[node].type # "Identifier" THEN FALSE
  ELSE LET p == Kind[parent]
       IN CASE p.type \in {"FunctionDeclaration", "FunctionExpression",
                           "ArrowFunctionExpression"} ->
                 \/ p.type # "ArrowFunctionExpression" /\ p.id = node
                 \/ \E i \in DOMAIN p.params :
                      includes(getPatternIdentifiers(p.params[i]), node)
            [] p.type \in {"ClassDeclaration", "ClassExpression"} -> p.id = node
            [] p.type \in {"MethodDefinition", "PropertyDefinition"} ->
                 p.key = node
            [] p.type = "VariableDeclarator" ->
                 includes(getPatternIdentifiers(p.id), node)
            [] p.type = "CatchClause" ->
                 p.param # Null /\ includes(getPatternIdentifiers(p.param), node)
            [] p.type = "Property" -> p.key = node /\ p.value # node
            [] p.type = "MemberExpression" -> p.property = node
            [] OTHER -> FALSE

(* variant: the analysis keeps the tracker's default options *)
analysisOptions_default == [preserveExitedScopes |-> FALSE]

(* walk.ts 523-525: new ScopeTracker({ preserveExitedScopes: true }) *)
analysisOptions == [preserveExitedScopes |-> TRUE]

(* walk.ts 528-530 *)
isIdentifierUndeclared(t, node, parent) ==
  ~isBindingIdentifier(node, parent) /\ ~isDeclared(t, Kind[node].name)

(* Set.prototype.add: a Set keeps its values in insertion order, each once *)
add(set, x) == IF includes(set, x) THEN set ELSE Append(set, x)

(* walk.ts 541-545: the enter callback of the second walk *)
collect(set, t, node, parent) ==
  IF Kind[node].type = "Identifier" /\ isIdentifierUndeclared(t, node, parent)
    THEN add(set, Kind[node].name)
    ELSE set

(* the function nodes of the program *)
Functions == {n \in NodesU : Kind[n].type \in {"FunctionDeclaration",
                "FunctionExpression", "ArrowFunctionExpression"}}

(* walk.ts 522-535: getUndeclaredIdentifiersInFunction(node) has made its  *)
(* tracker and its Set and has called walk(node, { scopeTracker })         *)
InitU ==
  /\ Kind = SyntaxOf
  /\ heap = TreeU
  /\ \E node \in Functions :
        /\ walkers = walkTracked(<<>>, node, FALSE, FALSE)
        /\ stack = <<Activation(1, node, Null, NullKey, NullIdx)>>
  /\ results = <<[done |-> FALSE, value |-> Null]>>
  /\ log = <<>>
  /\ budget = 0
  /\ fresh = {}
  /\ tracker = ScopeTracker(analysisOptions)
  /\ tlog = <<>>
  /\ undeclaredIdentifiers = <<>>
  /\ parseCall = NoCall

(* walk.ts 537-546: the first walk has returned; the tracker is frozen and *)
(* the second walk is started, with the enter callback                     *)
FreezeAndWalk ==
  /\ ~Running
  /\ Len(walkers) = 1
  /\ tracker' = freeze(tracker)
  /\ tlog' = Append(tlog, [w |-> 1, op |-> "freeze", node |-> Null,
                           at |-> Len(log),
                           pre |-> tracker, post |-> freeze(tracker)])
  /\ walkers' = walkTracked(walkers, walkers[1].ast, TRUE, FALSE)
  /\ stack' = <<Activation(2, walkers[1].ast, Null, NullKey, NullIdx)>>
  /\ results' = Append(results, [done |-> FALSE, value |-> Null])
  /\ UNCHANGED <<heap, log, budget, fresh, outer>>

(* walk.ts 541-545 and sync.ts 69-92: the enter callback of the second     *)
(* walk runs for the node and returns                                      *)
CollectUndeclared ==
  /\ Entered
  /\ undeclaredIdentifiers' =
       collect(undeclaredIdentifiers, tracker, Top.input, Top.parent)
  /\ UNCHANGED <<parseCall, Kind>>

NextU ==
  \/ WalkEnter
  \/ CollectUndeclared
  \/ WalkChild
  \/ WalkLeave
  \/ FreezeAndWalk

SpecU == InitU /\ [][NextU]_vars

(* walk(program, { enter, leave, scopeTracker }) over the whole program of  *)
(* TreeU; the tracker was built with or without preserveExitedScopes.       *)
RootU == 240

InitW ==
  /\ Kind = SyntaxOf
  /\ heap = TreeU
  /\ \E e \in BOOLEAN, l \in BOOLEAN :
        walkers = walkTracked(<<>>, RootU, e, l)
  /\ stack = <<Activation(1, RootU, Null, NullKey, NullIdx)>>
  /\ results = <<[done |-> FALSE, value |-> Null]>>
  /\ log = <<>>
  /\ budget = 0
  /\ fresh = {}
  /\ \E p \in BOOLEAN : tracker = ScopeTracker([preserveExitedScopes |-> p])
  /\ tlog = <<>>
  /\ undeclaredIdentifiers = <<>>
  /\ parseCall = NoCall

NextW ==
  \/ WalkEnter
  \/ EnterReturn
  \/ WalkChild
  \/ WalkLeave
  \/ LeaveReturn

SpecW == InitW /\ [][NextW]_vars

(* walk(input, { enter, leave, scopeTracker }) over the program of named   *)
(* functions and classes or over one of its statements alone                *)
InitF ==
  /\ Kind = SyntaxOf
  /\ heap = TreeF
  /\ \E r \in RootsF, e \in BOOLEAN, l \in BOOLEAN :
        /\ walkers = walkTracked(<<>>, r, e, l)
        /\ stack = <<Activation(1, r, Null, NullKey, NullIdx)>>
  /\ results = <<[done |-> FALSE, value |-> Null]>>
  /\ log = <<>>
  /\ budget = 0
  /\ fresh = {}
  /\ \E p \in BOOLEAN : tracker = ScopeTracker([preserveExitedScopes |-> p])
  /\ tlog = <<>>
  /\ undeclaredIdentifiers = <<>>
  /\ parseCall = NoCall

SpecF == InitF /\ [][NextW]_vars

(* the same walks, the tracker frozen after a pass and the tree walked     *)
(* again with it (walk.ts 532-547)                                         *)
NextG == NextW \/ Freeze \/ WalkAgain

SpecG == InitF /\ [][NextG]_vars

(* the calls of freeze() made so far *)
Freezes == {j \in 1..Len(tlog) : tlog[j].op = "freeze"}

(* variant: the tracker stops taking declarations and stays where it is *)
FreezeCall_inPlace ==
  /\ Cardinality(Freezes) < MaxFreezes
  /\ Running => Top.pc \in {"inEnter", "inLeave"}
  /\ tracker' = [tracker EXCEPT !.isFrozen = TRUE]
  /\ tlog' = Append(tlog, [w |-> Len(walkers), op |-> "freeze", node |-> Null,
                           at |-> Len(log), pre |-> tracker,
                           post |-> [tracker EXCEPT !.isFrozen = TRUE]])
  /\ UNCHANGED <<heap, walkers, stack, results, log, budget, fresh>>
  /\ UNCHANGED outer

(* walk.ts 422-426: scopeTracker.freeze() called by whoever holds the      *)
(* tracker: in a callback of the walk or after the walk has returned,      *)
(* frozen already or not                                                   *)
FreezeCall ==
  /\ Cardinality(Freezes) < MaxFreezes
  /\ Running => Top.pc \in {"inEnter", "inLeave"}
  /\ tracker' = freeze(tracker)
  /\ tlog' = Append(tlog, [w |-> Len(walkers), op |-> "freeze", node |-> Null,
                           at |-> Len(log),
                           pre |-> tracker, post |-> freeze(tracker)])
  /\ UNCHANGED <<heap, walkers, stack, results, log, budget, fresh>>
  /\ UNCHANGED outer

NextZ == NextW \/ FreezeCall

SpecZ == InitF /\ [][NextZ]_vars

(* walk(input, { enter, leave }) with any value as input: null, undefined,  *)
(* a scalar, an object without a type, with a type that is null or a        *)
(* number, or a node                                                        *)
Inputs == {Null, Undefined, Scalar, 5, 10, 11, Root, RootR}

InitN ==
  /\ Kind = SyntaxOf
  /\ heap = Tree0
  /\ \E r \in Inputs, e \in BOOLEAN, l \in BOOLEAN :
        /\ walkers = <<WalkerSync(e, l, r)>>
        /\ stack = <<Activation(1, r, Null, NullKey, NullIdx)>>
  /\ results = <<[done |-> FALSE, value |-> Null]>>
  /\ log = <<>>
  /\ budget = 0
  /\ fresh = {}
  /\ tracker = ScopeTracker([preserveExitedScopes |-> FALSE])
  /\ tlog = <<>>
  /\ undeclaredIdentifiers = <<>>
  /\ parseCall = NoCall

SpecN == InitN /\ [][NextW]_vars

(* walk.ts 49-57, LANG_RE: (?<=\.[cm]?)(?<lang>jsx|tsx|js|ts)$ over a       *)
(* filename, which is a sequence of characters                              *)
Alternatives == <<"jsx", "tsx", "js", "ts">>

Letters(a) ==
  CASE a = "jsx" -> <<"j", "s", "x">>
    [] a = "tsx" -> <<"t", "s", "x">>
    [] a = "js" -> <<"j", "s">>
    [] a = "ts" -> <<"t", "s">>

(* .after(exactly(".").and(anyOf("c", "m").optionally())) *)
after(name, i) ==
  \/ i > 1 /\ name[i - 1] = "."
  \/ i > 2 /\ name[i - 1] \in {"c", "m"} /\ name[i - 2] = "."

(* variant: the alternative need not reach the end of the input *)
atLineEnd_anywhere(name, i, a) ==
  /\ i + Len(Letters(Alternatives[a])) - 1 <= Len(name)
  /\ SubSeq(name, i, i + Len(Letters(Alternatives[a])) - 1) = Letters(Alternatives[a])

(* .at.lineEnd(): the alternative reaches the end of the input *)
atLineEnd(name, i, a) == SubSeq(name, i, Len(name)) = Letters(Alternatives[a])

(* sourceFilename.match(LANG_RE)?.groups?.lang: the leftmost position that *)
(* matches, and there the first alternative that does                      *)
LANG_RE(name) ==
  LET at(i) == {a \in DOMAIN Alternatives : after(name, i) /\ atLineEnd(name, i, a)}
      P == {i \in 1..Len(name) : at(i) # {}}
      first(S) == CHOOSE x \in S : \A y \in S : x <= y
  IN IF P = {} THEN "undefined" ELSE Alternatives[first(at(first(P)))]

(* walk.ts 92-96: { sourceType: "module", lang, ..._parseOptions }; a key   *)
(* of _parseOptions that is there replaces the value, undefined included    *)
spread(default, given) == IF given = "absent" THEN default ELSE given

(* the filenames parseAndWalk is called with *)
Filenames ==
  { <<"a", ".", "j", "s">>, <<"a", ".", "j", "s", "x">>,
    <<"a", ".", "t", "s">>, <<"a", ".", "t", "s", "x">>,
    <<"a", ".", "m", "t", "s">>, <<"a", ".", "c", "j", "s">>,
    <<"a", ".", "m", "j", "s", "x">>, <<"a", ".", "d", ".", "t", "s">>,
    <<"d", ".", "j", "s", "/", "f", ".", "t", "s">>,
    <<"d", ".", "t", "s", "/", "f">>, <<"a", ".", "t", "s", ".", "v", "u", "e">>,
    <<"a", ".", "x", "t", "s">>, <<"a", ".", "c", "m", "t", "s">>,
    <<"a", "t", "s">>, <<"t", "s">>, <<".", "t", "s">>,
    <<"a", ".", "j", "s", "o", "n">>, <<>> }

(* ParserOptions.lang and .sourceType, when the key is there *)
Langs == {"js", "jsx", "ts", "tsx", "dts"}
SourceTypes == {"script", "module", "unambiguous"}

(* walk.ts 83-99, parseAndWalk(code, sourceFilename, arg3): arg3 is the     *)
(* enter callback or the options; parseSync is the parser's and its        *)
(* program is the tree at Root; walk(ast.program, options) is about to run *)
(* _walk(program, null, null, null)                                        *)
ParseAndWalk ==
  /\ parseCall = NoCall /\ walkers = <<>>
  /\ \E sourceFilename \in Filenames, callback \in BOOLEAN,
        e \in BOOLEAN, l \in BOOLEAN,
        gl \in Langs \cup {"absent", "undefined"},
        gs \in SourceTypes \cup {"absent", "undefined"} :
        LET lang == LANG_RE(sourceFilename)
            _parseOptions == IF callback THEN [lang |-> "absent", sourceType |-> "absent"]
                             ELSE [lang |-> gl, sourceType |-> gs]
            enter == IF callback THEN TRUE ELSE e
            leave == IF callback THEN FALSE ELSE l
        IN /\ callback => gl = "absent" /\ gs = "absent" /\ e /\ ~l
           /\ parseCall' = [sourceFilename |-> sourceFilename,
                            parseOptions |-> _parseOptions,
                            lang |-> spread(lang, _parseOptions.lang),
                            sourceType |-> spread("module", _parseOptions.sourceType)]
           /\ walkers' = <<WalkerSync(enter, leave, Root)>>
           /\ stack' = <<Activation(1, Root, Null, NullKey, NullIdx)>>
           /\ results' = <<[done |-> FALSE, value |-> Null]>>
  /\ UNCHANGED <<heap, log, budget, fresh, tracker, tlog, undeclaredIdentifiers, Kind>>

InitL ==
  /\ Kind = SyntaxOf
  /\ heap = Tree0
  /\ walkers = <<>>
  /\ stack = <<>>
  /\ results = <<>>
  /\ log = <<>>
  /\ budget = 0
  /\ fresh = {}
  /\ tracker = ScopeTracker([preserveExitedScopes |-> FALSE])
  /\ tlog = <<>>
  /\ undeclaredIdentifiers = <<>>
  /\ parseCall = NoCall

NextL == ParseAndWalk \/ NextW

SpecL == InitL /\ [][NextL]_vars

(* walk.ts 548: return Array.from(undeclaredIdentifiers), once the second  *)
(* walk has returned                                                       *)
Analysed == ~Running /\ Len(walkers) = 2

----------------------------------------------------------------------------
(* Reading the history *)

LogIdx == 1..Len(log)
IsCb(e) == e.op \in {"enter", "leave"}
Done == results[1].done

(* the callback invocations of walker w, in order *)
Events(w) == SelectSeq(log, LAMBDA e : e.w = w /\ IsCb(e))

(* positions of the calls of context method op made by the ph-handler of   *)
(* walker w while it was invoked for node n                                *)
Calls(w, n, ph, op) ==
  {k \in LogIdx : log[k].w = w /\ log[k].node = n /\ log[k].ph = ph /\ log[k].op = op}

Called(w, n, ph, op) == Calls(w, n, ph, op) # {}

MaxOf(S) == CHOOSE x \in S : \A y \in S : y <= x
MinOf(S) == CHOOSE x \in S : \A y \in S : x <= y

LastReplaceArg(w, n, ph) == log[MaxOf(Calls(w, n, ph, "replace"))].arg

(* what one handler invocation asked for, remove before replace *)
Outcome(w, n, ph) ==
  IF Called(w, n, ph, "remove") THEN "remove"
  ELSE IF Called(w, n, ph, "replace") THEN "replace" ELSE "none"

(* position of the invocation of the op-handler (op = "enter"/"leave") or  *)
(* of the return of _walk (op = "return") of walker w for node n; 0 if none *)
Pos(w, n, op) ==
  LET S == {k \in LogIdx : log[k].w = w /\ log[k].node = n /\ log[k].op = op}
  IN IF S = {} THEN 0 ELSE MaxOf(S)

Count(w, n, op) ==
  Cardinality({k \in LogIdx : log[k].w = w /\ log[k].node = n /\ log[k].op = op})

(* the child nodes of object n in tree h, and everything below them *)
Kids(h, n) ==
  {v \in DOMAIN h : isNode(h, v) /\ \E k \in Range(h[n].keys) :
      \/ h[n].val[k].ref = v
      \/ v \in Range(h[n].val[k].elems)}

RECURSIVE Desc(_, _)
Desc(h, n) == LET ks == Kids(h, n) IN ks \cup UNION {Desc(h, k) : k \in ks}

(* the node that the walk of n continued with after its enter handler *)
ContinuedWith(w, n) ==
  IF Outcome(w, n, "enter") = "replace" THEN LastReplaceArg(w, n, "enter") ELSE n

(* Reading the first n events of evs as brackets: an enter event opens a  *)
(* node and must report as parent the node that the walk of the innermost  *)
(* open node continued with (null when nothing is open); a leave event     *)
(* must be for the innermost open node and closes it.  st is the sequence  *)
(* of open nodes, ok whether every event so far obeyed this.               *)
RECURSIVE OpenAt(_, _)
OpenAt(evs, n) ==
  IF n = 0 THEN [ok |-> TRUE, st |-> <<>>]
  ELSE LET p == OpenAt(evs, n - 1)
           e == evs[n]
           top == p.st[Len(p.st)]
       IN IF ~p.ok THEN p
          ELSE IF e.op = "enter"
            THEN [ok |-> IF p.st = <<>> THEN e.parent = Null
                         ELSE e.parent = ContinuedWith(e.w, top),
                  st |-> Append(p.st, e.node)]
            ELSE IF Len(p.st) > 0 /\ top = e.node
                   THEN [ok |-> TRUE, st |-> SubSeq(p.st, 1, Len(p.st) - 1)]
                   ELSE [ok |-> FALSE, st |-> p.st]

----------------------------------------------------------------------------
(* C1: with an enter and a leave handler registered, the enter and leave   *)
(* events of a traversal are balanced and properly nested: a leave event   *)
(* always closes the innermost open enter event, a node is entered while   *)
(* the node it is reported under (its parent argument) is the innermost    *)
(* open one, no node is entered or left twice, and when traverse returns   *)
(* every entered node has been left.                                       *)
C1_Balanced ==
  (walkers[1].enter /\ walkers[1].leave) =>
    LET evs == Events(1)
        fin == OpenAt(evs, Len(evs))
    IN /\ fin.ok
       /\ Done => fin.st = <<>>
       /\ \A i, j \in 1..Len(evs) :
            (evs[i].node = evs[j].node /\ evs[i].op = evs[j].op) => i = j

(* a traversal has returned in which a node that was removed at enter and  *)
(* a node below the root were both entered and left *)
C1_Witness ==
  /\ Done /\ walkers[1].enter /\ walkers[1].leave
  /\ \E n \in DOMAIN heap : Called(1, n, "enter", "remove") /\ Count(1, n, "leave") = 1
  /\ Count(1, 6, "leave") = 1

(* C2: if skip() is called in the enter handler of N, no enter or leave    *)
(* event fires for anything below N (nor below the node N was replaced     *)
(* with in the same call), and the leave handler, if registered, is the    *)
(* next handler to be called, for N itself.                                *)
C2_Skip ==
  \A k \in LogIdx :
    log[k].op = "skip" =>
      LET n == log[k].node
          w == log[k].w
          m == ContinuedWith(w, n)
          below == Desc(Tree0, n) \cup Desc(Tree0, m)
          evs == Events(w)
      IN /\ \A j \in 1..Len(evs) :
              /\ evs[j].node \notin below
              /\ evs[j].parent \notin {n, m} \cup below
              /\ (walkers[w].leave /\ evs[j].op = "enter" /\ evs[j].node = n
                     /\ j < Len(evs))
                    => (evs[j + 1].op = "leave" /\ evs[j + 1].node = n)
         /\ (results[w].done /\ walkers[w].leave) => Count(w, n, "leave") = 1

(* skip() was called for a node that has children, and its leave fired *)
C2_Witness ==
  \E k \in LogIdx :
    /\ log[k].op = "skip" /\ log[k].node \in {1, 2}
    /\ Count(1, log[k].node, "leave") = 1
    /\ Done

(* the first position after k at which walker w invokes its enter handler; *)
(* 0 if it has not done so                                                 *)
NextEnterAfter(w, k) ==
  LET S == {j \in LogIdx : j > k /\ log[j].w = w /\ log[j].op = "enter"}
  IN IF S = {} THEN 0 ELSE CHOOSE x \in S : \A y \in S : x <= y

(* C3: if remove() is called in the enter handler of N, an element of an   *)
(* array of its parent, then no child of N is visited, the array is        *)
(* shorter by exactly the element N when the walk of N returns, the        *)
(* element that followed N is the next node entered, at the index N had,   *)
(* and every other node of the array is entered exactly once (a node that *)
(* a callback itself put into the array is not entered at all).  A leave   *)
(* handler that calls replace() for N puts a node back into the slot; that *)
(* case is left out of the second and third part.                          *)
C3_RemoveInEnter ==
  \A k \in LogIdx :
    (log[k].op = "w_remove" /\ log[k].ph = "enter" /\ log[k].index # NullIdx) =>
      LET n == log[k].node
          w == log[k].w
          i == log[k].index
          sibs0 == log[Pos(w, n, "enter")].sibs
          r == Pos(w, n, "return")
          putBack == Called(w, n, "leave", "replace")
          nx == NextEnterAfter(w, r)
      IN /\ \A j \in LogIdx : log[j].w = w => log[j].parent # n
         /\ log[k].sibs = SpliceOut(sibs0, i)
         /\ (r # 0 /\ ~putBack) => log[r].sibs = SpliceOut(sibs0, i)
         /\ (r # 0 /\ ~putBack /\ i + 2 <= Len(sibs0) /\ isNode(Tree0, sibs0[i + 2])) =>
              /\ nx # 0 =>
                   /\ log[nx].node = sibs0[i + 2]
                   /\ log[nx].parent = log[k].parent
                   /\ log[nx].key = log[k].key
                   /\ log[nx].index = i
              /\ results[w].done => nx # 0
         /\ \A x \in Range(sibs0) \ {n} :
              (isNode(Tree0, x) /\ x \notin Replacements) =>
                /\ Count(w, x, "enter") <= 1
                /\ results[w].done => Count(w, x, "enter") = 1

(* the ph-handler of walker w is open for node n *)
InHandler(w, n, ph) ==
  \E s \in 1..Len(stack) :
    /\ stack[s].w = w /\ stack[s].input = n
    /\ stack[s].pc = (IF ph = "enter" THEN "inEnter" ELSE "inLeave")

(* what the parent of entry e holds under e.key once m is in e's slot *)
SlotWith(e, m) ==
  IF e.parent = Null THEN <<>>
  ELSE IF e.index # NullIdx THEN SetAt(e.sibs, e.index, m) ELSE <<m>>

(* C4: if the enter handler of N has called replace(M) and not remove(),   *)
(* then M is written into N's slot of the parent before any child is       *)
(* visited, the children that are visited are M's (every child of M is     *)
(* entered with M as parent, no node is entered with N as parent), and the *)
(* leave handler is invoked for N itself with the key and index that N's   *)
(* enter handler was given.                                                *)
C4_ReplaceInEnter ==
  \A k \in LogIdx :
    LET n == log[k].node
        w == log[k].w
    IN (/\ log[k].op = "enter"
        /\ Called(w, n, "enter", "replace")
        /\ ~Called(w, n, "enter", "remove")
        /\ ~InHandler(w, n, "enter")) =>
         LET M == LastReplaceArg(w, n, "enter")
             lv == Pos(w, n, "leave")
             rt == Pos(w, n, "return")
         IN /\ \E x \in Calls(w, n, "enter", "w_replace") :
                 /\ log[x].arg = M
                 /\ log[x].sibs = SlotWith(log[k], M)
                 /\ \A j \in LogIdx :
                      (log[j].w = w /\ log[j].parent \in {n, M}) => j > x
            /\ \A j \in LogIdx : log[j].w = w => log[j].parent # n
            /\ (rt # 0 /\ ~Called(w, n, "enter", "skip")) =>
                 \A c \in Kids(Tree0, M) :
                   \E j \in LogIdx :
                     /\ log[j].w = w /\ log[j].op = "enter"
                     /\ log[j].node = c /\ log[j].parent = M
                     /\ (lv # 0 => j < lv)
            /\ (rt # 0 /\ walkers[w].leave) => lv # 0
            /\ lv # 0 =>
                 /\ log[lv].parent = log[k].parent
                 /\ log[lv].key = log[k].key
                 /\ log[lv].index = log[k].index

(* a node of an array was replaced at enter by a node that has a child,    *)
(* the child was entered under the replacement and the leave handler was   *)
(* called for the original node                                            *)
C4_Witness ==
  /\ Done
  /\ \E n \in {2, 3} :
       /\ Called(1, n, "enter", "replace") /\ ~Called(1, n, "enter", "remove")
       /\ LastReplaceArg(1, n, "enter") = 7
       /\ \E j \in LogIdx : log[j].op = "enter" /\ log[j].node = 8 /\ log[j].parent = 7
       /\ Count(1, n, "leave") = 1

(* no callback of walker w has called remove() or replace() for an element *)
(* of the array that entry e was taken from, other than e's own node       *)
OthersUntouched(w, e) ==
  \A j \in LogIdx :
    (log[j].w = w /\ log[j].op \in {"remove", "replace"} /\ log[j].node # e.node)
      => log[j].node \notin Range(e.sibs)

(* C5: if N was removed by its enter handler and its leave handler called  *)
(* replace(M) (and not remove()), then when the walk of N returns the      *)
(* parent holds what it held when N was entered with M in N's place: M is  *)
(* inserted at N's index, not written over the sibling that had moved      *)
(* there.  From then on M stays at that index and occurs once, and as long *)
(* as the callbacks direct no remove() or replace() at another element of  *)
(* the array, every sibling stays where it was.                            *)
C5_Resurrect ==
  \A k \in LogIdx :
    LET n == log[k].node
        w == log[k].w
        e == log[k]
        rt == Pos(w, n, "return")
    IN (/\ e.op = "enter" /\ e.parent # Null
        /\ Called(w, n, "enter", "remove")
        /\ Called(w, n, "leave", "replace")
        /\ ~Called(w, n, "leave", "remove")
        /\ rt # 0) =>
         LET M == LastReplaceArg(w, n, "leave")
             cur == Sibs(heap, e.parent, e.key, e.index)
         IN /\ log[rt].sibs = SlotWith(e, M)
            /\ log[rt].arg = M
            /\ Cardinality({q \in 1..Len(cur) : cur[q] = M}) = 1
            /\ IF e.index = NullIdx THEN cur = <<M>>
               ELSE Len(cur) > e.index /\ cur[e.index + 1] = M
            /\ OthersUntouched(w, e) => cur = SlotWith(e, M)

(* the traversal is over; a node that had siblings after it was removed at *)
(* enter and replaced at leave, and the array has its original length      *)
C5_Witness ==
  /\ Done
  /\ \E n \in {2} :
       /\ Called(1, n, "enter", "remove")
       /\ Called(1, n, "leave", "replace") /\ ~Called(1, n, "leave", "remove")
       /\ heap[1].val["body"].elems[n] = LastReplaceArg(1, n, "leave")
       /\ Len(heap[1].val["body"].elems) = 3

(* some object of h refers to m, in a field or in an array *)
InTree(h, m) ==
  \E o \in DOMAIN h : \E f \in Range(h[o].keys) :
    h[o].val[f].ref = m \/ m \in Range(h[o].val[f].elems)

(* C6: when a handler invocation has called replace() more than once for   *)
(* its node, the arguments of all but the last call are never written and  *)
(* never appear in the tree or as a result; once the handler has returned  *)
(* (not having called remove()), the argument of the last call has been    *)
(* written and N's slot holds it.                                          *)
C6_LastReplace ==
  \A a \in LogIdx :
    LET n == log[a].node
        w == log[a].w
        ph == log[a].ph
        cs == Calls(w, n, ph, "replace")
        last == MaxOf(cs)
    IN (log[a].op = "replace" /\ Cardinality(cs) >= 2) =>
         IF a # last
           THEN /\ ~InTree(heap, log[a].arg)
                /\ \A j \in LogIdx :
                     log[j].op \in {"w_replace", "w_insert", "return"}
                       => log[j].arg # log[a].arg
           ELSE (~InHandler(w, n, ph) /\ ~Called(w, n, ph, "remove")) =>
                  \E x \in LogIdx :
                    /\ log[x].op \in {"w_replace", "w_insert"}
                    /\ log[x].w = w /\ log[x].node = n /\ log[x].ph = ph
                    /\ log[x].arg = log[a].arg
                    /\ log[x].parent # Null =>
                         IF log[x].index = NullIdx
                           THEN log[x].sibs = <<log[a].arg>>
                           ELSE log[x].sibs[log[x].index + 1] = log[a].arg

(* replace() was called three times in one enter invocation for a node     *)
(* below the root and twice in one leave invocation, and the traversal is  *)
(* over / the last argument is in the tree                                 *)
C6_Witness ==
  /\ Done
  /\ \E n \in DOMAIN heap :
       /\ Cardinality(Calls(1, n, "enter", "replace")) = 3
       /\ ~Called(1, n, "enter", "remove")
       /\ InTree(heap, LastReplaceArg(1, n, "enter"))

(* A traversal started by a callback is running: above the activation of   *)
(* traverse() at the bottom of the stack there is another one.             *)
NestedBases(st) == {s \in 2..Len(st) : IsBase(st[s])}
Nested(st) == NestedBases(st) # {}

(* the activations of the outermost traversal *)
OuterFrames(st) ==
  IF Nested(st)
    THEN SubSeq(st, 1, (CHOOSE x \in NestedBases(st) :
                          \A y \in NestedBases(st) : x <= y) - 1)
    ELSE st

(* the objects of the tree that the outermost traversal is walking *)
OuterObjs ==
  UNION {{v} \cup Desc(heap, v) :
           v \in ({f.input : f \in Range(OuterFrames(stack))}
                    \cup {f.currentNode : f \in Range(OuterFrames(stack))})
                   \ {Null}}

(* the step from the current state is the return of the handler that is    *)
(* open in the innermost activation (sync.ts 71 or 128 is reached)         *)
HandlerReturns ==
  /\ Top.pc \in {"inEnter", "inLeave"}
  /\ Len(stack') <= Len(stack)
  /\ Len(stack') = Len(stack) => stack'[Len(stack)].pc = "children"

(* C7: a traversal started with walk() inside a callback does not alter    *)
(* the traversal it was started from.  (a) The tree is written only when a *)
(* handler returns, and what the traversal then applies to the node is     *)
(* exactly what that handler invocation of the same walker asked for: the  *)
(* node is removed iff it called remove(), replaced (by the last argument) *)
(* iff it called replace() and not remove(), and its children are skipped  *)
(* iff it called skip(); calls made by the callbacks of another traversal  *)
(* do not count.  (b) No step of a nested traversal (its start, its steps, *)
(* its return) changes the outermost walker, its activations, its result,  *)
(* its history or any object of the tree it walks: when the nested         *)
(* traversal has returned, the outer one goes on from the state it was in  *)
(* before the call.                                                        *)
C7_Reentrancy ==
  [][Running =>
      LET w == Top.w
          n == Top.input
          ph == Phase(Top)
          new == {j \in 1..Len(log') : j > Len(log)}
          wrote(ops) == \E j \in new : log'[j].op \in ops
      IN /\ \A j \in new :
              log'[j].op \in {"w_remove", "w_replace", "w_insert"} =>
                /\ HandlerReturns
                /\ log'[j].w = w /\ log'[j].node = n /\ log'[j].ph = ph
         /\ HandlerReturns =>
              /\ wrote({"w_remove"}) <=> Called(w, n, ph, "remove")
              /\ wrote({"w_replace", "w_insert"})
                   <=> (Called(w, n, ph, "replace") /\ ~Called(w, n, ph, "remove"))
              /\ \A j \in new :
                   log'[j].op \in {"w_replace", "w_insert"}
                     => log'[j].arg = LastReplaceArg(w, n, ph)
              /\ ph = "enter" =>
                   (stack'[Len(stack)].skipChildren <=> Called(w, n, ph, "skip"))
         /\ (Nested(stack) \/ Nested(stack')) =>
              /\ walkers'[1] = walkers[1]
              /\ results'[1] = results[1]
              /\ OuterFrames(stack') = OuterFrames(stack)
              /\ SelectSeq(log', LAMBDA e : e.w = 1)
                   = SelectSeq(log, LAMBDA e : e.w = 1)
              /\ \A o \in OuterObjs : heap'[o] = heap[o]]_vars

(* the enter handler of the outer traversal called walk() on its own node, *)
(* the nested traversal called skip() for that node and returned, and the  *)
(* outer traversal went on to enter the node's child and finished          *)
C7_Witness ==
  /\ Done
  /\ Len(walkers) >= 2 /\ walkers[2].ast = RootR /\ results[2].done
  /\ \E k \in LogIdx : log[k].w = 2 /\ log[k].op = "skip" /\ log[k].node = RootR
  /\ ~Called(1, RootR, "enter", "skip")
  /\ \E j \in LogIdx : log[j].w = 1 /\ log[j].op = "enter" /\ log[j].node = 6

(* C8: a walk with neither an enter nor a leave handler writes nothing     *)
(* (every object keeps its keys, their order and their values) and         *)
(* returns the root it was given.                                          *)
C8_NoHandlers ==
  (~walkers[1].enter /\ ~walkers[1].leave) =>
    /\ heap = Tree0
    /\ Done => results[1].value = Root
    /\ \A k \in LogIdx : log[k].op = "return"

(* a walk without handlers has gone down to the deepest node and returned *)
C8_Witness ==
  /\ Done /\ ~walkers[1].enter /\ ~walkers[1].leave
  /\ Pos(1, 6, "return") # 0
  /\ Pos(1, 3, "return") # 0

(* the node that the ph-handler invocation for n left behind: cur if it    *)
(* asked for nothing                                                       *)
PhaseResult(w, n, ph, cur) ==
  IF Outcome(w, n, ph) = "remove" THEN Null
  ELSE IF Outcome(w, n, ph) = "replace" THEN LastReplaceArg(w, n, ph) ELSE cur

(* C9 as stated: traverse returns the original root if neither handler     *)
(* replaced or removed it, the replacement if the root's enter or leave    *)
(* handler replaced it, and null if the root's enter or leave handler      *)
(* removed it (within one invocation remove() counts before replace(), and *)
(* the last replace() counts).                                             *)
C9_Original ==
  Done =>
    LET oe == Outcome(1, Root, "enter")
        ol == Outcome(1, Root, "leave")
        v == results[1].value
    IN /\ (oe = "none" /\ ol = "none") => v = Root
       /\ (oe = "replace" \/ ol = "replace") =>
            v \in {log[k].arg : k \in Calls(1, Root, "enter", "replace")
                                     \cup Calls(1, Root, "leave", "replace")}
       /\ (oe = "remove" \/ ol = "remove") => v = Null

(* C9 amended: traverse returns what the last handler invocation for the   *)
(* root that asked for something left behind: null or the replacement of   *)
(* the leave handler if it removed or replaced the root, otherwise null or *)
(* the replacement of the enter handler, otherwise the original root.      *)
C9_FinalRoot ==
  Done =>
    results[1].value
      = PhaseResult(1, Root, "leave", PhaseResult(1, Root, "enter", Root))

(* the root was removed by its enter handler and replaced by its leave     *)
(* handler, and traverse returned the replacement                          *)
C9_Witness ==
  /\ Done
  /\ Outcome(1, Root, "enter") = "remove"
  /\ Outcome(1, Root, "leave") = "replace"
  /\ results[1].value = LastReplaceArg(1, Root, "leave")

(* One handler invocation (the ph-handler of walker w for the node of its  *)
(* entry k) has called both replace() and remove() and has returned; then  *)
(* the removal was applied: the parent's array (or field) has lost the     *)
(* element in N's slot (unless the enter handler had removed it already)   *)
(* and holds neither N nor an argument of those replace() calls, and no    *)
(* such argument was ever written or is referred to by any object.         *)
BothCalled(k) ==
  /\ log[k].op \in {"enter", "leave"}
  /\ Called(log[k].w, log[k].node, log[k].ph, "replace")
  /\ Called(log[k].w, log[k].node, log[k].ph, "remove")
  /\ ~InHandler(log[k].w, log[k].node, log[k].ph)

RemoveWins(k) ==
  LET n == log[k].node
      w == log[k].w
      ph == log[k].ph
      args == {log[c].arg : c \in Calls(w, n, ph, "replace")}
  IN /\ \E x \in Calls(w, n, ph, "w_remove") :
          log[k].parent # Null =>
            /\ Range(log[x].sibs) \cap ({n} \cup args) = {}
            /\ (ph = "leave" /\ Called(w, n, "enter", "remove"))
                 \/ log[x].sibs = (IF log[k].index = NullIdx THEN <<>>
                                   ELSE SpliceOut(log[k].sibs, log[k].index))
     /\ \A j \in LogIdx :
          log[j].op \in {"w_replace", "w_insert"} => log[j].arg \notin args
     /\ \A m \in args : ~InTree(heap, m)

(* C10 as stated: if replace(M) and remove() are both called in one enter  *)
(* (or one leave) invocation for N, N's slot is removed from the parent, M *)
(* is never written, and the walk of N returns null to the parent's loop.  *)
C10_Original ==
  \A k \in LogIdx :
    BothCalled(k) =>
      /\ RemoveWins(k)
      /\ LET rt == Pos(log[k].w, log[k].node, "return")
         IN (rt # 0 /\ log[k].parent # Null) => log[rt].arg = Null

(* C10 amended: if replace(M) and remove() are both called in one enter    *)
(* (or one leave) invocation for N, N's slot is removed from the parent    *)
(* and M is never written; the walk of N returns null to the parent's      *)
(* loop, except after an enter invocation whose leave handler then calls   *)
(* replace(M2) and not remove(): M2 is inserted at N's index and returned. *)
C10_RemoveWins ==
  \A k \in LogIdx :
    BothCalled(k) =>
      /\ RemoveWins(k)
      /\ LET n == log[k].node
             w == log[k].w
             rt == Pos(w, n, "return")
         IN rt # 0 =>
              IF log[k].ph = "enter" /\ Outcome(w, n, "leave") = "replace"
                THEN /\ log[rt].arg = LastReplaceArg(w, n, "leave")
                     /\ \E x \in Calls(w, n, "leave", "w_insert") :
                          log[x].arg = log[rt].arg
                ELSE log[rt].arg = Null

(* both replace() and remove() were called in one handler invocation for   *)
(* an element of the root's array, the walk of that node returned null,    *)
(* and the traversal is over                                               *)
C10_Witness ==
  /\ Done
  /\ \E k \in LogIdx :
       /\ BothCalled(k) /\ log[k].index # NullIdx
       /\ Len(log[k].sibs) = 3
       /\ log[Pos(1, log[k].node, "return")].arg = Null

----------------------------------------------------------------------------
(* History readers for the scope tracker *)

(* entry i of lg records the tracker call op made by the activation that   *)
(* wrote entry k                                                           *)
SameCall(lg, i, k, op) ==
  /\ lg[i].op = op
  /\ lg[i].w = lg[k].w
  /\ lg[i].node = lg[k].node
  /\ lg[i].parent = lg[k].parent
  /\ lg[i].key = lg[k].key

(* the calls made on the tracker that are recorded at entry k of the log *)
TrackerCalls(tl, k, op) == {m \in DOMAIN tl : tl[m].at = k /\ tl[m].op = op}

NotifiedAt(lg, tl, k) ==
  LET e == lg[k]
  IN /\ e.op = "enter" => k > 1 /\ SameCall(lg, k - 1, k, "processNodeEnter")
     /\ e.op = "leave" => k > 1 /\ SameCall(lg, k - 1, k, "processNodeLeave")
     /\ e.op \in {"processNodeEnter", "processNodeLeave"} =>
          \E m \in TrackerCalls(tl, k, e.op) : tl[m].node = e.node
     /\ e.op = "return" /\ isNode(TreeT, e.node) =>
          \E j \in 1..(k - 1) :
            /\ SameCall(lg, j, k, "processNodeLeave")
            /\ \E i \in 1..(j - 1) : SameCall(lg, i, k, "processNodeEnter")

(* C11: with a scope tracker attached, processNodeEnter is called right    *)
(* before the enter callback and processNodeLeave right before the leave   *)
(* callback of every visited node; both calls are made whether or not a    *)
(* callback is registered (every visit that returns has made both, in this *)
(* order), and the subject of processNodeLeave is the node the visit       *)
(* started with, also when the enter callback removed or replaced it.      *)
C11_TrackerNotified ==
  [][\A k \in (Len(log) + 1)..Len(log') :
       walkers'[log'[k].w].scopeTracker => NotifiedAt(log', tlog', k)]_vars

(* the enter callback of a block removed it, no leave callback is          *)
(* registered, and processNodeLeave was called for the block afterwards    *)
C11_Witness ==
  \E k \in DOMAIN log :
    /\ log[k].op = "remove" /\ log[k].ph = "enter"
    /\ Kind[log[k].node].type = "BlockStatement"
    /\ ~walkers[log[k].w].leave
    /\ \E j \in (k + 1)..Len(log) :
         /\ SameCall(log, j, k, "processNodeLeave")
         /\ \E m \in TrackerCalls(tlog, j, "processNodeLeave") :
              tlog[m].node = log[k].node

(* The frames of the tracker's position: the ordinals of the scopes that   *)
(* are open around the current one; its first i ordinals name the i-th     *)
(* frame from the root (the root frame for i = 0, the current one last).   *)
Path(t) == slice(t.scopeIndexStack, 0 - 1)
FrameKey(t, i) == join(slice(Path(t), i))
Holders(t, name) ==
  {i \in 0..Len(Path(t)) :
     /\ MapHas(t.scopes, FrameKey(t, i))
     /\ MapHas(t.scopes[FrameKey(t, i)], name)}

LookupOk(t) ==
  \A name \in Names \cup {"undeclared"} :
    LET H == Holders(t, name)
        found == getDeclaration(t, name)
    IN /\ H = {} => found = NoDeclaration
       /\ H # {} => found = t.scopes[FrameKey(t, MaxOf(H))][name]
       /\ isDeclared(t, name) <=> found # NoDeclaration

Loop == CHOOSE n \in DOMAIN TreeT : Kind[n].type = "ForStatement"
LoopBody == {TreeT[Loop].val["body"].ref} \cup Desc(TreeT, TreeT[Loop].val["body"].ref)
LoopVars == {Kind[Kind[d].id].name : d \in Range(Kind[Kind[Loop].init].declarations)}
AroundLoop == {n \in DOMAIN TreeT : Loop \in Kids(TreeT, n)}
BesideLoop == UNION {Kids(TreeT, n) : n \in AroundLoop} \ {Loop}
OuterNames == {"x", "f", "a"}

(* what a callback for the node of tracker call c can resolve *)
ResolvesAt(c) ==
  /\ c.node \in LoopBody =>
       \A v \in LoopVars \cup OuterNames : isDeclared(c.post, v)
  /\ c.node \in BesideLoop => \A v \in LoopVars : ~isDeclared(c.post, v)

(* C13: in a traversal with a tracker that is not frozen, at the enter and *)
(* at the leave of every node of a for loop's body the loop variable and   *)
(* the variables declared around the loop (in the enclosing function and   *)
(* program) are declared, and at the statements of the enclosing block     *)
(* before and after the loop the loop variable is not declared.            *)
C13_LoopVariable ==
  [][\A m \in (Len(tlog) + 1)..Len(tlog') :
       tlog'[m].op # "freeze" /\ ~tlog'[m].pre.isFrozen => ResolvesAt(tlog'[m])]_vars

(* the statement in the loop body was entered with i declared, and later   *)
(* the declaration that follows the loop was entered with i not declared;  *)
(* the statement before the loop had been entered as well                  *)
C13_Witness ==
  \E m \in DOMAIN tlog :
    /\ tlog[m].op = "processNodeEnter" /\ tlog[m].node = 8
    /\ isDeclared(tlog[m].post, "i") /\ isDeclared(tlog[m].post, "a")
    /\ \E b \in 1..(m - 1) : tlog[b].node = 9 /\ ~isDeclared(tlog[b].post, "i")
    /\ \E a \in (m + 1)..Len(tlog) :
         /\ tlog[a].op = "processNodeEnter" /\ tlog[a].node = 10
         /\ ~isDeclared(tlog[a].post, "i")
         /\ ~tlog[a].pre.isFrozen

(* Frames named by their sibling ordinals from the root, and the strict    *)
(* ancestor relation between two of them.                                  *)
Ordinals == {0, 1, MaxOrdinal}
FramePaths == UNION {[1..d -> Ordinals] : d \in 0..MaxDepth}
IsAncestor(b, a) == Len(b) < Len(a) /\ SubSeq(a, 1, Len(b)) = b

(* C14: isCurrentScopeUnder(k), and isUnderScope(k) of a record declared   *)
(* in the current frame, is true exactly when the frame with key k is a    *)
(* strict ancestor of the current frame: k's ordinals are a proper prefix  *)
(* of the current frame's ordinals.                                        *)
C14_Ancestry ==
  \A b \in FramePaths :
    LET here == ScopeTrackerVariable(Block, getCurrentScope(tracker), Block)
    IN /\ isCurrentScopeUnder(tracker, join(b)) <=> IsAncestor(b, Path(tracker))
       /\ isUnderScope(here, join(b)) <=> IsAncestor(b, Path(tracker))

(* The scopes a tracker call opened: their keys, outermost first.  The     *)
(* i-th ordinal of the stack belongs to the i-th open scope, whose key is  *)
(* made of the ordinals before it.                                         *)
Pushed(c) == Len(c.post.scopeIndexStack) - Len(c.pre.scopeIndexStack)
OpenedKey(c, i) == join(slice(c.post.scopeIndexStack, Len(c.pre.scopeIndexStack) + i - 1))
Opened(c) == {OpenedKey(c, i) : i \in 1..Pushed(c)}
ChildKey(K, n) == IF K = <<>> THEN toString(n) ELSE K \o <<"-">> \o toString(n)
Last(s) == s[Len(s)]

(* the keys follow the sibling-ordinal scheme at tracker call c *)
KeyScheme(c) ==
  LET pre == c.pre.scopeIndexStack
      post == c.post.scopeIndexStack
  IN /\ c.post.scopeIndexKey = join(slice(post, 0 - 1))
     /\ Pushed(c) > 0 =>
          /\ OpenedKey(c, 1) = IF pre = <<>> THEN <<>>
                               ELSE ChildKey(c.pre.scopeIndexKey, Last(pre))
          /\ \A i \in 2..Pushed(c) :
               OpenedKey(c, i) = ChildKey(OpenedKey(c, i - 1), 0)
          /\ c.post.scopeIndexKey = OpenedKey(c, Pushed(c))
     /\ Pushed(c) < 0 /\ post # <<>> =>
          post = [slice(pre, Len(post)) EXCEPT ![Len(post)] = @ + 1]

(* C15: the root frame has key "", the n-th scope opened directly inside   *)
(* the frame with key K gets the key K-n (n under the root), leaving a     *)
(* child scope advances the ordinal of its parent by one, and no two       *)
(* scopes opened during one traversal get the same key.                    *)
C15_KeyScheme ==
  /\ getCurrentScope(tracker) = <<>>
  /\ [][\A m \in (Len(tlog) + 1)..Len(tlog') :
          tlog'[m].op # "freeze" =>
            /\ KeyScheme(tlog'[m])
            /\ Cardinality(Opened(tlog'[m])) = IF Pushed(tlog'[m]) > 0
                                                THEN Pushed(tlog'[m]) ELSE 0
            /\ \A j \in 1..(m - 1) :
                 tlog'[j].w = tlog'[m].w /\ tlog'[j].op = "processNodeEnter"
                   => Opened(tlog'[j]) \cap Opened(tlog'[m]) = {}]_vars

(* the declarations (scope key, name, record) in the tracker's table *)
Declarations(t) ==
  {<<k, n, t.scopes[k][n]>> : <<k, n>> \in
     UNION {{<<k2, n2>> : n2 \in DOMAIN t.scopes[k2]} : k2 \in DOMAIN t.scopes}}

(* the scopes processNodeEnter opens for a node of the given type *)
Pushes(type) ==
  IF type = "FunctionExpression" THEN 2
  ELSE IF type \in {"Program", "BlockStatement", "StaticBlock",
                    "FunctionDeclaration", "ArrowFunctionExpression",
                    "ClassExpression", "CatchClause", "ForStatement",
                    "ForOfStatement", "ForInStatement"} THEN 1
  ELSE 0

FrozenBefore(tl, m) == \E j \in 1..(m - 1) : tl[j].op = "freeze"

(* C16: once freeze() has been called, no call of processNodeEnter or      *)
(* processNodeLeave adds a declaration to the table or overwrites one,     *)
(* while the position still moves: processNodeEnter opens the scopes of    *)
(* the node's kind, processNodeLeave leaves them, and the current key is   *)
(* the one the sibling-ordinal scheme gives.                               *)
C16_Frozen ==
  [][\A m \in (Len(tlog) + 1)..Len(tlog') :
       LET c == tlog'[m]
       IN c.op # "freeze" /\ FrozenBefore(tlog', m) =>
            /\ Declarations(c.post) \subseteq Declarations(c.pre)
            /\ c.op = "processNodeEnter" => c.post.scopes = c.pre.scopes
            /\ Pushed(c) = IF c.op = "processNodeEnter"
                             THEN Pushes(Kind[c.node].type)
                             ELSE 0 - Pushes(Kind[c.node].type)
            /\ KeyScheme(c)]_vars

(* after freeze(), processNodeEnter was called for var x at a position     *)
(* where the table holds no x (the first pass did not preserve its         *)
(* scopes), and nothing was declared; before that call the walk had        *)
(* entered the function's block, which changed the current key             *)
C16_Witness ==
  \E m \in DOMAIN tlog :
    /\ FrozenBefore(tlog, m)
    /\ tlog[m].op = "processNodeEnter" /\ tlog[m].node = 10
    /\ ~isDeclared(tlog[m].post, "x")
    /\ \E j \in 1..(m - 1) :
         /\ FrozenBefore(tlog, j)
         /\ tlog[j].node = 4 /\ tlog[j].op = "processNodeEnter"
         /\ tlog[j].post.scopeIndexKey # tlog[j].pre.scopeIndexKey

(* the calls made on the tracker for node n by the traversal of walker w *)
CallsFor(tl, w, n, op) ==
  {j \in DOMAIN tl : tl[j].w = w /\ tl[j].node = n /\ tl[j].op = op}

(* C17: in a traversal made after a complete first traversal of the same   *)
(* unmodified tree and a freeze() of the tracker, getCurrentScope() is at  *)
(* the enter and at the leave of every node the key it was at the enter    *)
(* and at the leave of that node in the first traversal.                   *)
C17_Replay ==
  [][\A m \in (Len(tlog) + 1)..Len(tlog') :
       LET c == tlog'[m]
       IN c.op # "freeze" /\ c.w > 1 /\ FrozenBefore(tlog', m) =>
            /\ CallsFor(tlog', 1, c.node, c.op) # {}
            /\ \A j \in CallsFor(tlog', 1, c.node, c.op) :
                 getCurrentScope(tlog'[j].post) = getCurrentScope(c.post)]_vars

(* the second traversal, made after freeze(), has been completed; it left  *)
(* the loop's block again with the key it had there in the first pass,     *)
(* after the statement before the loop and the loop itself were left       *)
C17_Witness ==
  /\ ~Running
  /\ Len(walkers) = 2
  /\ \E m \in CallsFor(tlog, 2, 7, "processNodeEnter") :
       /\ FrozenBefore(tlog, m)
       /\ getCurrentScope(tlog[m].post) = <<"0", "-", "0", "-", "0", "-", "0">>
  /\ \E m \in CallsFor(tlog, 2, 12, "processNodeEnter") :
       getCurrentScope(tlog[m].post) = <<"1", "-", "0">>
  /\ CallsFor(tlog, 2, 1, "processNodeLeave") # {}

(* C18: with preserveExitedScopes, every declaration in the table is still *)
(* there, with the same record, after any call of processNodeLeave, after  *)
(* freeze() and after any tracker call of a traversal made after freeze(); *)
(* and the table changes in no other way than by a tracker call.           *)
C18_Preserved ==
  [][tracker.options.preserveExitedScopes =>
       /\ tracker'.scopes # tracker.scopes => Len(tlog') > Len(tlog)
       /\ \A m \in (Len(tlog) + 1)..Len(tlog') :
            LET c == tlog'[m]
            IN c.op \in {"processNodeLeave", "freeze"} \/ FrozenBefore(tlog', m)
                 => Declarations(c.pre) \subseteq Declarations(c.post)]_vars

(* with the option set, a first pass, freeze() and a second pass have been *)
(* made, and the table still holds the loop variable under the loop's key, *)
(* the parameter of f and the last declaration of x in the function's      *)
(* block                                                                   *)
C18_Witness ==
  /\ tracker.options.preserveExitedScopes
  /\ ~Running /\ Len(walkers) = 2 /\ tracker.isFrozen
  /\ CallsFor(tlog, 2, 1, "processNodeLeave") # {}
  /\ \E d \in Declarations(tracker) :
       d[1] = <<"0", "-", "0", "-", "0">> /\ d[2] = "i" /\ d[3].variableNode = 6
  /\ \E d \in Declarations(tracker) : d[1] = <<"0">> /\ d[2] = "a"
  /\ \E d \in Declarations(tracker) :
       d[1] = <<"0", "-", "0">> /\ d[2] = "x" /\ d[3].variableNode = 11

(* the names a node declares when it is entered, and the nodes its records *)
(* belong to (the node itself, or the declaration in a loop's head)        *)
PatternNames(patterns) ==
  {Kind[i].name : i \in UNION {Range(getPatternIdentifiers(p)) : p \in Range(patterns)}}
DeclaratorNames(n) ==
  IF n # Null /\ Kind[n].type = "VariableDeclaration"
    THEN PatternNames([d \in DOMAIN Kind[n].declarations |->
                         Kind[Kind[n].declarations[d]].id])
    ELSE {}
NamesOf(n) ==
  LET k == Kind[n]
  IN (IF idName(n) # "" /\ k.type \in {"FunctionDeclaration", "FunctionExpression",
                                       "ClassDeclaration", "ClassExpression"}
        THEN {idName(n)} ELSE {})
       \cup (IF k.type \in {"FunctionDeclaration", "FunctionExpression",
                            "ArrowFunctionExpression"}
               THEN PatternNames(k.params) ELSE {})
       \cup DeclaratorNames(n)
       \cup (IF k.type = "ForStatement" THEN DeclaratorNames(k.init) ELSE {})
       \cup (IF k.type \in {"ForOfStatement", "ForInStatement"}
               THEN DeclaratorNames(k.left) ELSE {})
       \cup (IF k.type = "CatchClause" /\ k.param # Null
               THEN PatternNames(<<k.param>>) ELSE {})
       \cup (IF k.type = "ImportDeclaration"
               THEN {Kind[Kind[sp].local].name : sp \in Range(k.specifiers)}
               ELSE {})
DeclaredBy(n) ==
  {n} \cup (IF Kind[n].type = "ForStatement" /\ Kind[n].init # Null
              THEN {Kind[n].init} ELSE {})
      \cup (IF Kind[n].type \in {"ForOfStatement", "ForInStatement"}
                 /\ Kind[n].left # Null
              THEN {Kind[n].left} ELSE {})

(* the statement, function or class a record belongs to, and its name *)
Owner(data) ==
  CASE data.type = "FunctionParam" -> data.fnNode
    [] data.type = "Variable" -> data.variableNode
    [] data.type = "Import" -> data.importNode
    [] data.type = "CatchParam" -> data.catchNode
    [] data.type = "Identifier" ->
         CHOOSE n \in DOMAIN Kind : Kind[n].id = data.node
    [] OTHER -> data.node
RecordName(data) ==
  CASE data.type = "Function" -> idName(data.node)
    [] data.type = "Import" -> Kind[Kind[data.node].local].name
    [] OTHER -> Kind[data.node].name

(* the entries of the table that tracker call c added or changed *)
Written(c) == Declarations(c.post) \ Declarations(c.pre)

LastWins(c) ==
  /\ \A v \in NamesOf(c.node) :
       \E d \in Declarations(c.post) :
         /\ d[2] = v /\ RecordName(d[3]) = v /\ Owner(d[3]) \in DeclaredBy(c.node)
         /\ d[3].scope = d[1]
         /\ getDeclaration(c.post, v) = d[3]
  /\ \A d \in Written(c) : d[2] \in NamesOf(c.node) /\ Owner(d[3]) \in DeclaredBy(c.node)
  /\ \A d \in Declarations(c.pre) :
       d \in Declarations(c.post)
         \/ \E e \in Written(c) : e[1] = d[1] /\ e[2] = d[2]

(* C19: a call of processNodeEnter on a tracker that is not frozen leaves  *)
(* for every name the node declares the node's own record in the table,    *)
(* whether or not the name was declared in that frame before (the last     *)
(* declaration wins), and changes or removes no entry of another name or   *)
(* of another frame.                                                       *)
C19_Redeclare ==
  [][\A m \in (Len(tlog) + 1)..Len(tlog') :
       tlog'[m].op = "processNodeEnter" /\ ~tlog'[m].pre.isFrozen
         => LastWins(tlog'[m])]_vars

(* the second var x of the function's block was entered where the first    *)
(* had declared x in the same frame: its record replaced the first one and *)
(* every other entry stayed                                                *)
C19_Witness ==
  \E m \in DOMAIN tlog :
    LET c == tlog[m]
        key == c.pre.scopeIndexKey
    IN /\ c.op = "processNodeEnter" /\ c.node = 11 /\ ~c.pre.isFrozen
       /\ MapHas(c.pre.scopes, key) /\ MapHas(c.pre.scopes[key], "x")
       /\ c.pre.scopes[key]["x"].variableNode = 10
       /\ c.post.scopes[key]["x"].variableNode = 11
       /\ Cardinality(Written(c)) = 1
       /\ Cardinality(Declarations(c.post)) = Cardinality(Declarations(c.pre))
       /\ Cardinality(Declarations(c.pre)) > 2

(* the ordinal stack after a scope-opening node that was entered at stack  *)
(* S has been left: the scope around the node has one more child behind it *)
Bump(S) == IF S = <<>> THEN S ELSE [S EXCEPT ![Len(S)] = @ + 1]
AfterVisit(S, n) == IF Pushes(Kind[n].type) > 0 THEN Bump(S) ELSE S

(* entering a node of any kind and leaving it at once, from position t *)
PairOk(t, n) ==
  LET entered == processNodeEnter(t, n)
      left == processNodeLeave(entered, n)
  IN /\ Len(entered.scopeIndexStack) =
          Len(t.scopeIndexStack) + Pushes(Kind[n].type)
     /\ left.scopeIndexStack = AfterVisit(t.scopeIndexStack, n)
     /\ getCurrentScope(left) = getCurrentScope(t)

(* a call of processNodeLeave and the processNodeEnter call it matches *)
LeaveOk(tl, m) ==
  LET c == tl[m]
  IN /\ Pushed(c) = 0 - Pushes(Kind[c.node].type)
     /\ \A j \in CallsFor(tl, c.w, c.node, "processNodeEnter") :
          /\ j < m
          /\ Pushed(tl[j]) = Pushes(Kind[c.node].type)
          /\ getCurrentScope(c.post) = getCurrentScope(tl[j].pre)
          /\ c.post.scopeIndexStack = AfterVisit(tl[j].pre.scopeIndexStack, c.node)
     /\ CallsFor(tl, c.w, c.node, "processNodeEnter") # {}

(* C20: processNodeLeave leaves as many scopes as processNodeEnter opened  *)
(* for the node (two for a function expression, one for every other kind   *)
(* that opens a scope, none otherwise), for a node of every kind at every  *)
(* position a traversal reaches; after the processNodeLeave of a node the  *)
(* current frame is the one that was current before its processNodeEnter,  *)
(* and when a traversal has returned the current frame is the root.        *)
C20_Balanced ==
  [][/\ tracker' # tracker => \A n \in KindNodes : PairOk(tracker', n)
     /\ \A m \in (Len(tlog) + 1)..Len(tlog') :
          tlog'[m].op = "processNodeLeave" => LeaveOk(tlog', m)
     /\ Running /\ ~Running' =>
          getCurrentScope(tracker') = <<>> /\ tracker'.scopeIndexStack = <<>>]_vars

(* the traversal of the program has returned and the tracker is back at    *)
(* the root; on the way the function expression opened two scopes and left *)
(* two, with the block inside it entered and left in between               *)
C20_Witness ==
  /\ ~Running /\ walkers[1].ast = RootT
  /\ getCurrentScope(tracker) = <<>>
  /\ \E m \in CallsFor(tlog, 1, 12, "processNodeLeave") :
       /\ Pushed(tlog[m]) = 0 - 2
       /\ \E j \in CallsFor(tlog, 1, 12, "processNodeEnter") :
            /\ Pushed(tlog[j]) = 2
            /\ \E b \in CallsFor(tlog, 1, 13, "processNodeLeave") : j < b /\ b < m

----------------------------------------------------------------------------
(* The undeclared-identifier analysis, read from the history *)

(* the identifiers a pattern binds *)
RECURSIVE Targets(_)
Targets(pattern) ==
  IF pattern = Null THEN {}
  ELSE LET k == Kind[pattern]
       IN CASE k.type = "Identifier" -> {pattern}
            [] k.type = "AssignmentPattern" -> Targets(k.left)
            [] k.type \in {"RestElement", "Property"} ->
                 Targets(IF k.type = "Property" THEN k.value ELSE k.argument)
            [] k.type = "ArrayPattern" ->
                 UNION {Targets(k.elements[i]) : i \in DOMAIN k.elements}
            [] k.type = "ObjectPattern" ->
                 UNION {Targets(k.properties[i]) : i \in DOMAIN k.properties}
            [] OTHER -> {}

(* The binding occurrences of the program: name slots of functions and     *)
(* classes, the targets of parameter, declarator and catch patterns, and   *)
(* the names written after a dot or before a colon (a property name that   *)
(* is not computed and is not its own shorthand value).  Every other       *)
(* identifier is a reference.                                              *)
BindingSites ==
  UNION {LET k == Kind[p]
         IN CASE k.type \in {"FunctionDeclaration", "FunctionExpression"} ->
                   {k.id} \cup UNION {Targets(k.params[i]) : i \in DOMAIN k.params}
              [] k.type = "ArrowFunctionExpression" ->
                   UNION {Targets(k.params[i]) : i \in DOMAIN k.params}
              [] k.type \in {"ClassDeclaration", "ClassExpression"} -> {k.id}
              [] k.type = "VariableDeclarator" -> Targets(k.id)
              [] k.type = "CatchClause" -> Targets(k.param)
              [] k.type \in {"Property", "MethodDefinition",
                             "PropertyDefinition"} ->
                   IF ~k.computed /\ k.key # k.value THEN {k.key} ELSE {}
              [] k.type = "MemberExpression" ->
                   IF ~k.computed THEN {k.property} ELSE {}
              [] OTHER -> {}
         : p \in NodesU}

(* the identifier occurrences the second walk meets, as log positions *)
Occurrences ==
  {k \in 1..Len(log) : /\ log[k].w = 2 /\ log[k].op = "enter"
                       /\ Kind[log[k].node].type = "Identifier"}

(* the tracker as it stands when the callback at log position k runs *)
TrackerAt(k) ==
  tlog[CHOOSE m \in 1..Len(tlog) : tlog[m].w = 2 /\ tlog[m].at = k - 1].post

(* the references that resolve in no frame around their position *)
Unresolved ==
  {k \in Occurrences : /\ log[k].node \notin BindingSites
                       /\ Holders(TrackerAt(k), Kind[log[k].node].name) = {}}

FirstOf(S, name) == MinOf({k \in S : Kind[log[k].node].name = name})

(* seq lists the names of the occurrences S, each once, by first occurrence *)
ListsOnce(seq, S) ==
  /\ Range(seq) = {Kind[log[k].node].name : k \in S}
  /\ \A i, j \in DOMAIN seq :
       i < j => seq[i] # seq[j] /\ FirstOf(S, seq[i]) < FirstOf(S, seq[j])

(* C21: getUndeclaredIdentifiersInFunction(f) returns, each name once and  *)
(* by first occurrence, exactly the names of the identifier occurrences in *)
(* f's subtree that are references (not binding occurrences) and resolve   *)
(* in no frame around their position; f's own name and its parameters are  *)
(* not reported: for function f(x){ return x + y; } the result is ["y"].   *)
C21_Undeclared ==
  Analysed =>
    /\ ListsOnce(undeclaredIdentifiers, Unresolved)
    /\ walkers[1].ast = 250 => undeclaredIdentifiers = <<"y">>

(* the call the first walk made on the tracker when it entered node n *)
VisitOf(n) == CHOOSE m \in CallsFor(tlog, 1, n, "processNodeEnter") : TRUE

(* the keys of the frames around the position of tracker t, its own last *)
FramesAt(t) == {FrameKey(t, i) : i \in 0..Len(Path(t))}

(* node n is met by the first walk before its name is declared in the     *)
(* frame of n or in a frame around it                                      *)
DeclaredLater(n) ==
  \E m \in DOMAIN tlog :
    /\ tlog[m].w = 1 /\ tlog[m].op = "processNodeEnter" /\ m > VisitOf(n)
    /\ \E d \in Written(tlog[m]) :
         d[2] = Kind[n].name /\ d[1] \in FramesAt(tlog[VisitOf(n)].post)

(* the callback of the second walk is about to run for a reference *)
AtReference ==
  /\ Running /\ Top.w = 2 /\ Top.pc = "inEnter"
  /\ Kind[Top.input].type = "Identifier"
  /\ Top.input \notin BindingSites

(* C22: in the two-pass analysis a reference that comes, in traversal      *)
(* order, before the declaration of its name in its own frame or in a      *)
(* frame around it is not reported: the first pass has recorded every      *)
(* declaration in preserved frames before the second pass asks.            *)
C22_Hoisted ==
  [][AtReference /\ DeclaredLater(Top.input) =>
       /\ undeclaredIdentifiers' = undeclaredIdentifiers
       /\ isDeclared(tracker, Kind[Top.input].name)]_vars

(* the analysis of g has returned: u was read before `var u, v` in its own *)
(* frame and v in a block inside that frame; neither is in the result,     *)
(* while w, read next to v and declared nowhere, is                        *)
C22_Witness ==
  /\ Analysed /\ walkers[1].ast = 259
  /\ DeclaredLater(264) /\ DeclaredLater(268) /\ ~DeclaredLater(269)
  /\ FramesAt(tlog[VisitOf(268)].post) # FramesAt(tlog[VisitOf(264)].post)
  /\ \E k \in Occurrences : log[k].node = 264
  /\ \E k \in Occurrences : log[k].node = 268
  /\ ~includes(undeclaredIdentifiers, "u")
  /\ ~includes(undeclaredIdentifiers, "v")
  /\ includes(undeclaredIdentifiers, "w")

----------------------------------------------------------------------------
(* Repeated context calls *)

(* the log position at which the open callback of walker w was invoked *)
InvokedAt(w) ==
  MaxOf({k \in 1..Len(log) : log[k].w = w /\ log[k].op \in {"enter", "leave"}})

(* the open callback has already called this.<op>() *)
CalledBefore(op) ==
  \E j \in (InvokedAt(Top.w) + 1)..Len(log) : log[j].w = Top.w /\ log[j].op = op

(* this step is a call of this.<op>() by the open callback *)
CallsNow(op) ==
  /\ Running /\ Top.pc \in {"inEnter", "inLeave"}
  /\ Len(log') = Len(log) + 1
  /\ log'[Len(log')].op = op /\ log'[Len(log')].w = Top.w

(* C23: a call of skip() or of remove() by a callback that has already     *)
(* made the same call changes nothing: the walker, its position, the tree  *)
(* and the results are as the earlier call left them, so what the          *)
(* traversal goes on to do is what it does after one call; no call raises  *)
(* an error (the callback stays open and the traversal running).           *)
C23_Repeated ==
  [][\A op \in {"skip", "remove"} :
       CallsNow(op) /\ CalledBefore(op) =>
         /\ UNCHANGED <<heap, walkers, stack, results, tracker>>
         /\ Running']_vars

(* the enter callback of the second statement called remove() twice: the   *)
(* statement is gone from the body once, its neighbour has moved up and    *)
(* was visited, and the traversal has returned                             *)
C23_Witness ==
  /\ ~Running
  /\ \E k \in 1..Len(log) :
       /\ k + 2 <= Len(log)
       /\ log[k].w = 1 /\ log[k].op = "enter" /\ log[k].node = 2
       /\ log[k + 1].op = "remove" /\ log[k + 2].op = "remove"
       /\ log[k + 1].w = 1 /\ log[k + 2].w = 1
  /\ heap[1].val["body"].elems = <<Null, 3>>
  /\ \E k \in 1..Len(log) : log[k].op = "enter" /\ log[k].node = 3

----------------------------------------------------------------------------
(* Partially shaped nodes *)

(* C24: a traversal over a tree with partially shaped nodes (nodes of a    *)
(* known kind that lack some of that kind's fields, such as a hand-built   *)
(* replacement) never raises an error, with a scope tracker attached or    *)
(* without one: it runs to its return, and it visits only children that    *)
(* are actually present in their parent.                                   *)
C24_Partial ==
  /\ \A k \in 1..Len(log) :
       /\ log[k].op # "throw"
       /\ log[k].op \in {"enter", "processNodeEnter"} /\ log[k].parent # Null
            => includes(log[k].sibs, log[k].node)
  /\ ~Running => \A w \in DOMAIN results : results[w].done

----------------------------------------------------------------------------
(* Kinds the tracker does not know *)

(* the types named by the cases of processNodeEnter and processNodeLeave *)
Recognised ==
  {"Program", "BlockStatement", "StaticBlock", "FunctionDeclaration",
   "FunctionExpression", "ArrowFunctionExpression", "VariableDeclaration",
   "ClassDeclaration", "ClassExpression", "ImportDeclaration", "CatchClause",
   "ForStatement", "ForOfStatement", "ForInStatement"}

Unrecognised == {n \in NodesU : Kind[n].type \notin Recognised}

(* C25: processNodeEnter and processNodeLeave on a node whose kind is not  *)
(* one the tracker recognises leave the tracker entirely unchanged: no     *)
(* frame is pushed or popped, the current frame key is the same and no     *)
(* declaration is added or removed.  Checked for every call a traversal    *)
(* makes and, at every position it reaches, for a node of every such kind. *)
C25_Unrecognised ==
  [][/\ \A m \in (Len(tlog) + 1)..Len(tlog') :
          tlog'[m].node \in Unrecognised => tlog'[m].post = tlog'[m].pre
     /\ \A n \in Unrecognised :
          /\ processNodeEnter(tracker', n) = tracker'
          /\ processNodeLeave(tracker', n) = tracker']_vars

(* the first walk over f has entered and left the expression x + y inside  *)
(* the function's block: both calls found and left two open frames and the *)
(* declarations of f and x                                                 *)
C25_Witness ==
  /\ \E i \in CallsFor(tlog, 1, 255, "processNodeEnter") :
       \E j \in CallsFor(tlog, 1, 255, "processNodeLeave") :
         /\ tlog[i].post = tlog[i].pre /\ tlog[j].post = tlog[j].pre
         /\ Len(tlog[i].pre.scopeIndexStack) = 2
         /\ Cardinality(Declarations(tlog[j].pre)) = 2
         /\ ~tlog[j].pre.isFrozen
  /\ Kind[255].type = "BinaryExpression" /\ 255 \in Unrecognised

----------------------------------------------------------------------------
(* The arguments of the callbacks *)

(* node is what parent holds under key (at index, if the field is an array) *)
HeldAt(h, node, parent, key, index) ==
  IF index # NullIdx
    THEN /\ h[parent].val[key].kind = "arr"
         /\ index + 1 \in DOMAIN h[parent].val[key].elems
         /\ h[parent].val[key].elems[index + 1] = node
    ELSE /\ h[parent].val[key].kind = "one"
         /\ h[parent].val[key].ref = node

(* the last enter callback of walker w for the node before log position m *)
EnterOf(lg, m) ==
  {j \in 1..(m - 1) : /\ lg[j].w = lg[m].w /\ lg[j].op = "enter"
                      /\ lg[j].node = lg[m].node
                      /\ \A i \in (j + 1)..(m - 1) :
                           ~(lg[i].w = lg[m].w /\ lg[i].op = "enter"
                               /\ lg[i].node = lg[m].node)}

(* C26: every enter and leave callback receives (node, parent, {key,       *)
(* index, ast}) such that at enter time node is parent[key][index] if the  *)
(* field is an array and parent[key], with index null, if it is a single   *)
(* child; the root comes with parent, key and index null; ast is the root  *)
(* passed to the traversal; the leave callback of a node gets the parent,  *)
(* key and index that its enter callback got.                              *)
C26_Context ==
  [][\A m \in (Len(log) + 1)..Len(log') :
       LET c == log'[m]
           ctx == walkers'[c.w]
       IN c.op \in {"enter", "leave"} =>
            /\ ctx.ctxKey = c.key /\ ctx.ctxIndex = c.index
            /\ \E d \in DOMAIN stack' :
                 /\ stack'[d].w = c.w /\ IsBase(stack'[d])
                 /\ stack'[d].input = ctx.ast
            /\ c.parent = Null =>
                 c.key = NullKey /\ c.index = NullIdx /\ c.node = ctx.ast
            /\ c.parent # Null =>
                 /\ c.key \in AllKeys
                 /\ c.op = "enter" => HeldAt(heap', c.node, c.parent, c.key, c.index)
            /\ c.op = "leave" =>
                 \A j \in EnterOf(log', m) :
                   /\ log'[j].parent = c.parent
                   /\ log'[j].key = c.key /\ log'[j].index = c.index]_vars

(* a finished traversal with both handlers: the root came with nulls, the  *)
(* second statement as body[1] at enter and at leave, its child as the     *)
(* single child arg with index null                                        *)
C26_Witness ==
  /\ ~Running
  /\ \E r, a, b, c \in 1..Len(log) :
       /\ a < b /\ b < c
       /\ log[r].op = "enter" /\ log[r].node = Root /\ log[r].parent = Null
       /\ log[r].key = NullKey /\ log[r].index = NullIdx
       /\ log[a].op = "enter" /\ log[a].node = 2 /\ log[a].parent = Root
       /\ log[a].key = "body" /\ log[a].index = 1
       /\ log[b].op = "enter" /\ log[b].node = 6 /\ log[b].parent = 2
       /\ log[b].key = "arg" /\ log[b].index = NullIdx
       /\ log[c].op = "leave" /\ log[c].node = 2
       /\ log[c].key = "body" /\ log[c].index = 1

----------------------------------------------------------------------------
(* Declaration records *)

(* the construct whose range a record written by tracker call c reports:   *)
(* the node entered by c, the declaration statement of a loop, or the id   *)
(* of a class                                                              *)
Construct(c, data) ==
  LET k == Kind[c.node]
  IN CASE data.type = "Variable" ->
            IF k.type = "ForStatement" THEN k.init
            ELSE IF k.type \in {"ForOfStatement", "ForInStatement"} THEN k.left
            ELSE c.node
       [] data.type = "Identifier" -> k.id
       [] OTHER -> c.node

(* the kind of record that fits the node entered by c and the binding *)
Fits(c, name, data) ==
  LET k == Kind[c.node]
      decl == Kind[Construct(c, data)]
  IN CASE data.type = "Function" ->
            /\ k.type \in {"FunctionDeclaration", "FunctionExpression"}
            /\ data.node = c.node /\ idName(c.node) = name
       [] data.type = "FunctionParam" ->
            /\ k.type \in {"FunctionDeclaration", "FunctionExpression",
                           "ArrowFunctionExpression"}
            /\ \E i \in DOMAIN k.params : data.node \in Targets(k.params[i])
            /\ Kind[data.node].name = name
       [] data.type = "Variable" ->
            /\ decl.type = "VariableDeclaration"
            /\ \E i \in DOMAIN decl.declarations :
                 data.node \in Targets(Kind[decl.declarations[i]].id)
            /\ Kind[data.node].name = name
       [] data.type = "Identifier" ->
            /\ k.type \in {"ClassDeclaration", "ClassExpression"}
            /\ data.node = k.id /\ Kind[k.id].name = name
       [] data.type = "Import" ->
            /\ k.type = "ImportDeclaration"
            /\ includes(k.specifiers, data.node)
            /\ Kind[Kind[data.node].local].name = name
       [] data.type = "CatchParam" ->
            /\ k.type = "CatchClause"
            /\ data.node \in Targets(k.param) /\ Kind[data.node].name = name
       [] OTHER -> FALSE

(* the frame that is current when call c declares the record: the frame    *)
(* around the node for the name of a declared function or class, for an    *)
(* import and for a declaration statement, the first of its two frames for *)
(* the name of a function expression, the frame the node opens otherwise   *)
FrameOf(c, data) ==
  LET k == Kind[c.node]
  IN IF data.type = "Function" /\ k.type = "FunctionExpression"
       THEN OpenedKey(c, 1)
     ELSE IF data.type = "Function" THEN c.pre.scopeIndexKey
     ELSE c.post.scopeIndexKey

(* C27: each declaration record carries the frame key that was current     *)
(* when it was declared, and its start and end are those of the relevant   *)
(* construct: the enclosing function for a parameter, the function itself  *)
(* for a named function, the enclosing VariableDeclaration for a variable  *)
(* (destructured bindings included), the identifier for a class name, the  *)
(* import statement for an import binding and the catch clause for a catch *)
(* parameter.                                                              *)
C27_Records ==
  [][\A m \in (Len(tlog) + 1)..Len(tlog') :
       \A d \in Written(tlog'[m]) :
         LET c == tlog'[m]
             data == d[3]
         IN /\ Fits(c, d[2], data)
            /\ data.scope = FrameOf(c, data) /\ data.scope = d[1]
            /\ start(data) = Kind[Construct(c, data)].start
            /\ end(data) = Kind[Construct(c, data)].end]_vars

(* the table holds, for name, a record of the given type for node whose    *)
(* start and end are those of construct                                    *)
Recorded(name, type, node, construct) ==
  \E d \in Declarations(tracker) :
    /\ d[2] = name /\ d[3].type = type /\ d[3].node = node
    /\ start(d[3]) = Kind[construct].start /\ end(d[3]) = Kind[construct].end

(* the walk over the program has returned with the frames preserved: the   *)
(* table holds a record of each kind, with the range of its construct      *)
C27_Witness ==
  /\ ~Running /\ walkers[1].ast = RootU /\ tracker.options.preserveExitedScopes
  /\ Recorded("x", "FunctionParam", 252, 250)
  /\ Recorded("b", "FunctionParam", 296, 290)
  /\ Recorded("f", "Function", 250, 250)
  /\ Recorded("h", "Variable", 331, 326)
  /\ Recorded("i", "Variable", 303, 301)
  /\ Recorded("C", "Identifier", 248, 248)
  /\ Recorded("d", "Import", 242, 241)
  /\ Recorded("e", "CatchParam", 313, 312)
  /\ tracker.scopes[<<>>]["f"].scope = <<>>
  /\ tracker.scopes[<<"0">>]["x"].scope = <<"0">>

----------------------------------------------------------------------------
(* The node classifier *)

(* v is not null, is an object, and has a type field that holds a string *)
NodeLike(h, v) ==
  v \notin {Null, Undefined, Scalar} /\ v \in DOMAIN h /\ h[v].type = "str"

(* C28: isNode(v) is true if and only if v is non-null, is an object and   *)
(* has a type field whose value is a string; it gives an answer for every  *)
(* value; null, scalars and objects without a string type are leaves to    *)
(* the walker: no handler is called for them, nothing below them is        *)
(* visited, and a walk over one as input returns null.                     *)
C28_IsNode ==
  /\ \A v \in Inputs \cup DOMAIN heap :
       /\ isNode(heap, v) \in BOOLEAN
       /\ isNode(heap, v) <=> NodeLike(heap, v)
  /\ \A k \in 1..Len(log) :
       log[k].op \in {"enter", "leave"} =>
         NodeLike(heap, log[k].node) /\ log[k].node \notin {5, 10, 11}
  /\ ~Running /\ ~NodeLike(heap, walkers[1].ast) =>
       /\ results[1].done /\ results[1].value = Null
       /\ Len(log) = 1 /\ log[1].op = "return"

(* the walk over the tree has returned: the statements 2 and 3 and the     *)
(* child 6 were entered; the hole in body, the scalar name, the object 10  *)
(* without a type (which refers to 6) and the object 11 with a number as   *)
(* type were not                                                           *)
C28_Witness ==
  /\ ~Running /\ walkers[1].ast = Root /\ walkers[1].enter
  /\ {log[k].node : k \in {j \in 1..Len(log) : log[j].op = "enter"}} = {1, 2, 3, 6}
  /\ heap[2].val["extra"].ref = 10 /\ ~isNode(heap, 10)
  /\ heap[3].val["extra"].ref = 11 /\ ~isNode(heap, 11)
  /\ heap[1].val["body"].elems[1] = Null /\ ~isNode(heap, Null)
  /\ heap[1].val["name"].ref = Scalar /\ ~isNode(heap, Scalar)

----------------------------------------------------------------------------
(* The language parseAndWalk parses in *)

(* name ends with the characters of tail *)
EndsWith(name, tail) ==
  Len(tail) <= Len(name) /\ SubSeq(name, Len(name) - Len(tail) + 1, Len(name)) = tail

(* the extension at the very end of the filename: js, jsx, ts or tsx after *)
(* a dot, with at most one c or m in between                               *)
Extension(name) ==
  LET E == {a \in {"js", "jsx", "ts", "tsx"} :
              \E mid \in {<<>>, <<"c">>, <<"m">>} : EndsWith(name, <<".">> \o mid \o Letters(a))}
  IN IF E = {} THEN "undefined" ELSE CHOOSE a \in E : TRUE

(* C29: parseAndWalk infers the language from the extension at the very    *)
(* end of the filename and from nothing earlier in the path; a language    *)
(* given in parseOptions overrides the inferred one; with no source type   *)
(* given the source type is module.  The parse is of that filename and the *)
(* walk is over the program it yields.                                     *)
C29_Language ==
  parseCall # NoCall =>
    /\ Cardinality({a \in {"js", "jsx", "ts", "tsx"} :
          \E mid \in {<<>>, <<"c">>, <<"m">>} :
             EndsWith(parseCall.sourceFilename, <<".">> \o mid \o Letters(a))}) <= 1
    /\ parseCall.parseOptions.lang = "absent" =>
         parseCall.lang = Extension(parseCall.sourceFilename)
    /\ parseCall.parseOptions.lang \in Langs =>
         parseCall.lang = parseCall.parseOptions.lang
    /\ parseCall.parseOptions.sourceType = "absent" => parseCall.sourceType = "module"
    /\ parseCall.parseOptions.sourceType \in SourceTypes =>
         parseCall.sourceType = parseCall.parseOptions.sourceType
    /\ walkers[1].ast = Root

(* d.js/f.ts was parsed as ts with source type module and walked to the end *)
C29_Witness ==
  /\ parseCall.sourceFilename = <<"d", ".", "j", "s", "/", "f", ".", "t", "s">>
  /\ parseCall.parseOptions.lang = "absent" /\ parseCall.lang = "ts"
  /\ parseCall.parseOptions.sourceType = "absent" /\ parseCall.sourceType = "module"
  /\ ~Running /\ results[1].done
  /\ \E k \in 1..Len(log) : log[k].op = "enter" /\ log[k].node = Root

----------------------------------------------------------------------------
(* Directives belong to one callback invocation *)

Flags(wk) == <<wk._skip, wk._remove, wk._replacement>>

(* a callback of walker w is open *)
OpenCallback(w) ==
  \E d \in 1..Len(stack) : stack[d].w = w /\ stack[d].pc \in {"inEnter", "inLeave"}

(* between its callbacks, and once traverse has returned, the flags of a   *)
(* walker are false, false and none                                        *)
FlagsAtRest ==
  \A w \in 1..Len(walkers) : ~OpenCallback(w) => Flags(walkers[w]) = <<FALSE, FALSE, Null>>

(* this step calls the enter / the leave handler for the node of Top *)
HandlerCalled(ph) ==
  /\ Top.pc = (IF ph = "enter" THEN "start" ELSE "children")
  /\ Len(stack') = Len(stack)
  /\ stack'[Len(stack)].pc = (IF ph = "enter" THEN "inEnter" ELSE "inLeave")

(* the elements of an array other than those of S *)
Others(elems, S) == SelectSeq(elems, LAMBDA e : e \notin S)

(* C30: directives are scoped to one callback invocation.  What a callback *)
(* for node N asked for is applied to the slot of N in its parent and to   *)
(* nothing else: no other object changes, no other key of the parent       *)
(* changes, and in an array the elements other than N, the node that took  *)
(* its place at enter and the replacement stay, in their order.  Once      *)
(* the directives are applied the three flags hold what they held just     *)
(* before the callback was called, and between callbacks and after         *)
(* traverse has returned they hold false, false and none.                  *)
C30_Scoped ==
  /\ []FlagsAtRest
  /\ [][Running =>
         LET f == Top
             wk == walkers[f.w]
             p == f.parent
         IN /\ HandlerCalled("enter") =>
                 Flags(wk) = <<stack'[Len(stack)].sv_skip, stack'[Len(stack)].sv_remove,
                               stack'[Len(stack)].sv_replacement>>
            /\ HandlerCalled("leave") =>
                 /\ <<wk._remove, wk._replacement>>
                      = <<stack'[Len(stack)].sv_remove, stack'[Len(stack)].sv_replacement>>
                 /\ walkers'[f.w]._skip = wk._skip
            /\ f.pc = "inLeave" => walkers'[f.w]._skip = wk._skip
            /\ HandlerReturns =>
                 /\ f.pc = "inEnter" =>
                      Flags(walkers'[f.w]) = <<f.sv_skip, f.sv_remove, f.sv_replacement>>
                 /\ f.pc = "inLeave" =>
                      <<walkers'[f.w]._remove, walkers'[f.w]._replacement>>
                        = <<f.sv_remove, f.sv_replacement>>
                 /\ \A o \in DOMAIN heap :
                      /\ o # p => heap'[o] = heap[o]
                      /\ o = p =>
                           /\ heap'[o].type = heap[o].type
                           /\ \A k \in AllKeys \ {f.key} :
                                /\ HasKey(heap'[o], k) <=> HasKey(heap[o], k)
                                /\ HasKey(heap[o], k) => heap'[o].val[k] = heap[o].val[k]
                           /\ f.index # NullIdx =>
                                LET own == {f.input, f.currentNode, wk._replacement} \ {Null}
                                IN Others(heap'[o].val[f.key].elems, own)
                                     = Others(heap[o].val[f.key].elems, own)]_vars

----------------------------------------------------------------------------
(* Elements that no directive was issued for *)

(* the outermost traversal has walked the children of p: p is what the     *)
(* walk of an entered node went on with, without skip(), and that walk has *)
(* returned                                                                *)
ChildrenWalked(p) ==
  \E n \in DOMAIN Tree0 :
    /\ Pos(1, n, "enter") # 0 /\ Pos(1, n, "return") # 0
    /\ Outcome(1, n, "enter") # "remove"
    /\ ~Called(1, n, "enter", "skip")
    /\ ContinuedWith(1, n) = p

(* no callback of the outermost traversal called remove() or replace() for x *)
Undirected(x) ==
  \A ph \in {"enter", "leave"} :
    ~Called(1, x, ph, "remove") /\ ~Called(1, x, ph, "replace")

(* C31: a traversal detaches only nodes whose own callbacks asked for it.  *)
(* Once the children of a parent have been walked, every element X of one  *)
(* of its arrays for which neither callback called remove() or replace()   *)
(* is still in the array, in the same order relative to the other such     *)
(* elements, and was entered exactly once, whatever was directed at its    *)
(* siblings.                                                               *)
C31_Survivors ==
  \A p \in DOMAIN Tree0 : \A k \in Range(Tree0[p].keys) :
    (Tree0[p].val[k].kind = "arr" /\ ChildrenWalked(p)) =>
      LET keeps(x) == /\ x \in Range(Tree0[p].val[k].elems)
                      /\ isNode(Tree0, x) /\ Undirected(x)
      IN /\ \A x \in Range(Tree0[p].val[k].elems) :
              keeps(x) =>
                /\ x \in Range(heap[p].val[k].elems)
                /\ Count(1, x, "enter") = 1
         /\ SelectSeq(heap[p].val[k].elems, keeps)
              = SelectSeq(Tree0[p].val[k].elems, keeps)

----------------------------------------------------------------------------
(* Replacement nodes are not visited themselves *)

(* the index of the first node after index i in the array elems (indexes   *)
(* count from 0), -1 if there is none                                      *)
NextNodeAfter(elems, i) ==
  LET S == {j \in (i + 1)..(Len(elems) - 1) : isNode(Tree0, elems[j + 1])}
  IN IF S = {} THEN 0 - 1 ELSE MinOf(S)

(* what C32 says of the history so far *)
NotSubject ==
  \A k \in LogIdx :
    LET w == log[k].w
        n == log[k].node
        M == log[k].arg
        rt == Pos(w, n, "return")
        kids == Kids(Tree0, M)
        below == Desc(Tree0, M)
    IN /\ log[k].op = "replace" =>
            \A j \in LogIdx : (log[j].w = w /\ IsCb(log[j])) => log[j].node # M
       /\ (log[k].op = "w_replace" /\ log[k].ph = "enter") =>
            /\ \A j \in LogIdx :
                 (log[j].w = w /\ log[j].op = "enter" /\ log[j].parent \in {n, M}) =>
                    /\ log[j].parent = M /\ log[j].node \in kids
                    /\ j > k
            /\ (rt # 0 /\ ~Called(w, n, "enter", "skip")) =>
                 \A c \in kids : Count(w, c, "enter") = 1
       /\ (log[k].op \in {"w_replace", "w_insert"} /\ log[k].ph = "leave") =>
            /\ \A j \in LogIdx :
                 log[j].w = w => (log[j].node \notin below /\ log[j].parent # M)
            /\ (rt # 0 /\ log[rt].index # NullIdx
                  /\ NextNodeAfter(log[rt].sibs, log[rt].index) >= 0) =>
                 LET i == NextNodeAfter(log[rt].sibs, log[rt].index)
                     nx == NextEnterAfter(w, rt)
                 IN /\ (results[w].done /\ walkers[w].leave) =>
                         Count(w, log[rt].sibs[i + 1], "leave") = 1
                    /\ (results[w].done /\ walkers[w].enter) => nx # 0
                    /\ (walkers[w].enter /\ nx # 0) =>
                         /\ log[nx].node = log[rt].sibs[i + 1]
                         /\ log[nx].parent = log[rt].parent
                         /\ log[nx].index = i

(* C32: a node handed to replace() is never the subject of a callback of   *)
(* the traversal that installed it.  After replace(M) in the enter         *)
(* callback of N the nodes entered below are the children of M, with M as  *)
(* parent; after replace(M) in the leave callback of N neither M nor       *)
(* anything below M is visited, and the traversal goes on with the sibling *)
(* that follows N: it is the next node entered (if there is an enter       *)
(* handler) and it is left once.                                           *)
C32_NotSubject == NotSubject

(* the leave callback of the first statement replaced it by a node that    *)
(* has a child: neither was visited, the second statement was entered next *)
(* and the traversal has returned                                          *)
C32_Witness ==
  /\ Done /\ walkers[1].enter
  /\ Outcome(1, 2, "leave") = "replace" /\ LastReplaceArg(1, 2, "leave") = 7
  /\ heap[1].val["body"].elems = <<Null, 7, 3>>
  /\ Count(1, 7, "enter") = 0 /\ Count(1, 8, "enter") = 0
  /\ NextEnterAfter(1, Pos(1, 2, "return")) # 0
  /\ log[NextEnterAfter(1, Pos(1, 2, "return"))].node = 3

----------------------------------------------------------------------------
(* replace() together with skip() *)

(* what C33 says of the history so far *)
ReplaceAndSkip ==
  \A k \in LogIdx :
    LET n == log[k].node
        w == log[k].w
    IN (/\ log[k].op = "enter"
        /\ Called(w, n, "enter", "replace") /\ Called(w, n, "enter", "skip")
        /\ ~Called(w, n, "enter", "remove")
        /\ ~InHandler(w, n, "enter")) =>
         LET M == LastReplaceArg(w, n, "enter")
             rt == Pos(w, n, "return")
             below == Desc(Tree0, n) \cup Desc(Tree0, M)
         IN /\ \E x \in Calls(w, n, "enter", "w_replace") :
                 log[x].arg = M /\ log[x].sibs = SlotWith(log[k], M)
            /\ \A j \in LogIdx :
                 log[j].w = w =>
                   (log[j].parent \notin {n, M} /\ log[j].node \notin below \cup {M})
            /\ (rt # 0 /\ walkers[w].leave) =>
                 /\ Count(w, n, "leave") = 1
                 /\ \A j \in LogIdx :
                      (k < j /\ j < Pos(w, n, "leave") /\ log[j].w = w) => ~IsCb(log[j])
                 /\ log[Pos(w, n, "leave")].index = log[k].index
                 /\ log[Pos(w, n, "leave")].key = log[k].key

(* C33: if the enter callback of N calls both replace(M) and skip() (and   *)
(* not remove()), M is installed in N's slot, no child of M and no child   *)
(* of N is visited, and the leave callback still fires for N, as the next  *)
(* callback after N's enter.                                               *)
C33_ReplaceAndSkip == ReplaceAndSkip

(* the enter callback of the first statement called replace() with a node  *)
(* that has a child, and skip(): the node is in the body, neither its      *)
(* child nor the statement's child was entered, the leave callback fired   *)
(* for the statement and the traversal has returned                        *)
C33_Witness ==
  /\ Done /\ walkers[1].leave
  /\ Called(1, 2, "enter", "replace") /\ Called(1, 2, "enter", "skip")
  /\ ~Called(1, 2, "enter", "remove")
  /\ LastReplaceArg(1, 2, "enter") = 7
  /\ heap[1].val["body"].elems = <<Null, 7, 3>>
  /\ Count(1, 8, "enter") = 0 /\ Count(1, 6, "enter") = 0
  /\ Count(1, 2, "leave") = 1 /\ Count(1, 3, "enter") = 1

----------------------------------------------------------------------------
(* The order of the visit *)

(* one callback event: phase, node, parent, key, index *)
Ev(op, n, parent, key, index) ==
  [op |-> op, node |-> n, parent |-> parent, key |-> key, index |-> index]

RECURSIVE Flat(_)
Flat(ss) == IF ss = <<>> THEN <<>> ELSE Head(ss) \o Flat(Tail(ss))

(* The events of a depth-first visit of n in tree h, where to[x] is the    *)
(* node whose fields are gone through for x (x itself, or the node put in  *)
(* its place at enter): enter n, then for every field in enumeration order *)
(* the visit of the child, or of the elements by ascending index, whatever *)
(* is not a node passed over, then leave n.                                *)
RECURSIVE DepthFirst(_, _, _, _, _, _)
DepthFirst(h, to, n, parent, key, index) ==
  LET cur == to[n]
      field(k) ==
        LET v == h[cur].val[k]
        IN IF v.kind = "arr"
             THEN Flat([i \in 1..Len(v.elems) |->
                          IF NodeLike(h, v.elems[i])
                            THEN DepthFirst(h, to, v.elems[i], cur, k, i - 1)
                            ELSE <<>>])
             ELSE IF NodeLike(h, v.ref)
                    THEN DepthFirst(h, to, v.ref, cur, k, NullIdx)
                    ELSE <<>>
  IN <<Ev("enter", n, parent, key, index)>>
       \o Flat([j \in 1..Len(h[cur].keys) |-> field(h[cur].keys[j])])
       \o <<Ev("leave", n, parent, key, index)>>

(* the callback events of walker w as the history has them *)
Seen(w) ==
  LET evs == Events(w)
  IN [j \in 1..Len(evs) |->
        Ev(evs[j].op, evs[j].node, evs[j].parent, evs[j].key, evs[j].index)]

(* the events of a visit that walker w has a handler for *)
Heard(w, evs) ==
  SelectSeq(evs, LAMBDA e : IF e.op = "enter" THEN walkers[w].enter ELSE walkers[w].leave)

IsPrefix(a, b) == Len(a) <= Len(b) /\ SubSeq(b, 1, Len(a)) = a

(* the visit expected of the first walk: over the tree as it was given,    *)
(* through the fields of the replacement where one was put at enter; and   *)
(* of the second walk: over the tree as the first one left it              *)
Expected(w) ==
  IF w = 1
    THEN DepthFirst(TreeO, [x \in DOMAIN TreeO |-> ContinuedWith(1, x)],
                    walkers[1].ast, Null, NullKey, NullIdx)
    ELSE DepthFirst(heap, [x \in DOMAIN heap |-> x],
                    walkers[w].ast, Null, NullKey, NullIdx)

(* C34: children are visited depth-first in a fixed order: the fields of   *)
(* the current node (of its replacement, after replace() at enter) in the  *)
(* node's own enumeration order, the elements of an array by ascending     *)
(* index, the whole subtree of a child before the next child.  The events  *)
(* so far are always the beginning of that visit and, once the walk has    *)
(* returned, all of it; two walks of the same unmodified tree with         *)
(* callbacks that issue no directive give the same sequence of (phase,     *)
(* node, parent, key, index).                                              *)
C34_Order ==
  /\ \A w \in 1..Len(walkers) :
       /\ IsPrefix(Seen(w), Heard(w, Expected(w)))
       /\ results[w].done => Seen(w) = Heard(w, Expected(w))
  /\ (Len(walkers) = 2 /\ results[2].done /\ budget = MaxDirectivesO) => Seen(2) = Seen(1)

(* the second statement was replaced at enter by a node with two fields:   *)
(* the child in its array was entered before the child in its other field, *)
(* and a second walk has gone through the changed tree                     *)
C34_Witness ==
  /\ Len(walkers) = 2 /\ results[2].done /\ walkers[1].enter /\ walkers[1].leave
  /\ Called(1, 3, "enter", "replace") /\ LastReplaceArg(1, 3, "enter") = 7
  /\ Pos(1, 8, "enter") # 0 /\ Pos(1, 8, "leave") < Pos(1, 4, "enter")
  /\ Pos(1, 4, "leave") < Pos(1, 3, "leave")
  /\ Pos(2, 7, "enter") # 0 /\ Pos(2, 3, "enter") = 0

----------------------------------------------------------------------------
(* C35 *)

(* the frames of tracker t that hold a declaration of name *)
FramesOf(t, name) ==
  {k \in DOMAIN t.scopes : MapHas(t.scopes[k], name)}

(* the call of processNodeLeave that leaves the node entered by call m *)
LeaveOf(m) ==
  {j \in (m + 1)..Len(tlog) :
     tlog[j].op = "processNodeLeave" /\ tlog[j].node = tlog[m].node}

(* C35: entering a function declaration declares its name in the frame     *)
(* that was current before (the one enclosing the function) and its        *)
(* parameters in the frame pushed for the function, a frame other than     *)
(* the enclosing one; entering a named function expression or class        *)
(* expression declares the name in one frame only, a frame other than the  *)
(* enclosing one that holds nothing else, the name resolves at every call  *)
(* made inside the expression and it does not resolve after the            *)
(* expression has been left, with or without preserveExitedScopes.         *)
C35_NameFrames ==
  \A m \in 1..Len(tlog) :
    LET c == tlog[m]
        k == Kind[c.node]
    IN c.op = "processNodeEnter" /\ idName(c.node) # "" =>
         /\ k.type = "FunctionDeclaration" =>
              /\ FramesOf(c.post, idName(c.node)) = {c.pre.scopeIndexKey}
              /\ Len(c.post.scopeIndexStack) = Len(c.pre.scopeIndexStack) + 1
              /\ c.post.scopeIndexKey # c.pre.scopeIndexKey
              /\ \A i \in 1..Len(k.params) :
                   FramesOf(c.post, Kind[k.params[i]].name)
                     = {c.post.scopeIndexKey}
              /\ \A j \in (m + 1)..Len(tlog) :
                   LeaveOf(m) # {} /\ (\A x \in LeaveOf(m) : x < j)
                     /\ Len(tlog[j].pre.scopeIndexStack)
                          >= Len(c.pre.scopeIndexStack)
                     /\ tlog[j].pre.scopeIndexStack # <<>>
                     => isDeclared(tlog[j].pre, idName(c.node))
         /\ k.type \in {"FunctionExpression", "ClassExpression"} =>
              /\ \E own \in DOMAIN c.post.scopes :
                   /\ FramesOf(c.post, idName(c.node)) = {own}
                   /\ DOMAIN c.post.scopes[own] = {idName(c.node)}
                   /\ own \notin DOMAIN c.pre.scopes
              /\ isDeclared(c.post, idName(c.node))
              /\ \A j \in (m + 1)..Len(tlog) :
                   IF \E x \in LeaveOf(m) : x <= j
                     THEN ~isDeclared(tlog[j].post, idName(c.node))
                     ELSE isDeclared(tlog[j].post, idName(c.node))

----------------------------------------------------------------------------
(* C36 *)

(* the node types whose leave gives up a frame (walk.ts 337-352) *)
ScopeNodes ==
  {"Program", "BlockStatement", "CatchClause", "FunctionDeclaration",
   "ArrowFunctionExpression", "StaticBlock", "ClassExpression",
   "ForStatement", "ForOfStatement", "ForInStatement", "FunctionExpression"}

(* the call of processNodeEnter that call j of processNodeLeave answers *)
EnteredAt(j) ==
  CHOOSE m \in 1..j :
    /\ tlog[m].op = "processNodeEnter"
    /\ tlog[m].node = tlog[j].node /\ tlog[m].w = tlog[j].w

(* the key of the frame with key k and the keys of its ancestors *)
KeyAndAncestors(k) ==
  IF k = <<>> THEN {<<>>}
  ELSE Range(LookupKeys(indicesOf(k), Len(indicesOf(k))))

(* C36: without preserveExitedScopes, when a scope-introducing node has    *)
(* been left (frozen tracker or not) the declaration table is the one from *)
(* before the node was entered, with the name of a function declaration    *)
(* added to the frame that was current then: the declarations of the       *)
(* frames of the node are gone and no others; and after every call every   *)
(* key of the table is the current frame's key or the key of one of its    *)
(* ancestors.                                                              *)
C36_ExactDelete ==
  ~tracker.options.preserveExitedScopes =>
    \A j \in 1..Len(tlog) :
      /\ tlog[j].op = "processNodeLeave"
           /\ Kind[tlog[j].node].type \in ScopeNodes =>
           LET before == tlog[EnteredAt(j)].pre
           IN tlog[j].post.scopes =
                IF Kind[tlog[j].node].type = "FunctionDeclaration"
                  THEN declareFunctionName(before, tlog[j].node).scopes
                  ELSE before.scopes
      /\ DOMAIN tlog[j].post.scopes
           \subseteq KeyAndAncestors(tlog[j].post.scopeIndexKey)

----------------------------------------------------------------------------
(* C37 *)

(* C37: after every call of freeze(), wherever the tracker stood before,   *)
(* getCurrentScope() is "", the declaration table is the one from before   *)
(* the call, and a call that follows another call of freeze() directly     *)
(* returns the tracker as it found it.                                     *)
C37_Freeze ==
  \A j \in Freezes :
    /\ getCurrentScope(tlog[j].post) = <<>>
    /\ tlog[j].post.scopes = tlog[j].pre.scopes
    /\ j - 1 \in Freezes => tlog[j].post = tlog[j].pre

(* freeze() was called twice in a row inside a frame that is not the       *)
(* root's, with declarations recorded                                      *)
C37_Witness ==
  \E j \in Freezes :
    /\ j + 1 \in Freezes
    /\ tlog[j].pre.scopeIndexKey # <<>>
    /\ ~tlog[j].pre.isFrozen
    /\ tlog[j].pre.scopes # EmptyMap

----------------------------------------------------------------------------
(* C38 *)

(* Reading the first n calls of tl as brackets: processNodeEnter opens its *)
(* node, processNodeLeave must be for the innermost open node and closes   *)
(* it.  st is the sequence of open nodes.                                  *)
RECURSIVE Nesting(_, _)
Nesting(tl, n) ==
  IF n = 0 THEN [ok |-> TRUE, st |-> <<>>]
  ELSE LET r == Nesting(tl, n - 1)
           c == tl[n]
       IN IF c.op = "processNodeEnter"
            THEN [r EXCEPT !.st = Append(@, c.node)]
          ELSE IF c.op = "processNodeLeave"
            THEN IF r.st # <<>> /\ r.st[Len(r.st)] = c.node
                   THEN [r EXCEPT !.st = SubSeq(@, 1, Len(@) - 1)]
                   ELSE [r EXCEPT !.ok = FALSE]
          ELSE r

(* the child nodes of n in tree h in the order a traversal takes them *)
ChildList(h, n) ==
  Flat([j \in 1..Len(h[n].keys) |->
          LET v == h[n].val[h[n].keys[j]]
          IN IF v.kind = "arr"
               THEN SelectSeq(v.elems, LAMBDA x : NodeLike(h, x))
               ELSE IF NodeLike(h, v.ref) THEN <<v.ref>> ELSE <<>>])

(* The traversal of n in tree h without directives, for a tracker:         *)
(* processNodeEnter(n), the children in order, processNodeLeave(n).        *)
(* r.t is the tracker, r.keys the key that was current after the           *)
(* processNodeEnter of every node visited so far.                          *)
RECURSIVE PlainVisit(_, _, _)
RECURSIVE PlainVisitAll(_, _, _)
PlainVisit(h, r, n) ==
  LET e == processNodeEnter(r.t, n)
      below == PlainVisitAll(h, [t |-> e,
                                 keys |-> MapSet(r.keys, n, e.scopeIndexKey)],
                             ChildList(h, n))
  IN [below EXCEPT !.t = processNodeLeave(below.t, n)]

PlainVisitAll(h, r, ns) ==
  IF ns = <<>> THEN r
  ELSE PlainVisitAll(h, PlainVisit(h, r, Head(ns)), Tail(ns))

(* the nodes a callback issued a directive for *)
DirectedNodes ==
  {log[k].node : k \in {j \in 1..Len(log) :
                          log[j].op \in {"skip", "remove", "replace"}}}

(* those nodes, what is below them in the tree as given, and the nodes put *)
(* in by replace()                                                         *)
Affected ==
  DirectedNodes \cup UNION {Desc(TreeT, d) : d \in DirectedNodes \cap DOMAIN TreeT}
    \cup ReplacementsT

(* C38: whatever the callbacks skip, remove or replace, the calls made on  *)
(* the tracker nest properly (every processNodeLeave is for the node of    *)
(* the innermost processNodeEnter not yet answered, and when the traversal *)
(* has returned every processNodeEnter is answered), the tracker is then   *)
(* in the frame it was in before the traversal, and every node outside the *)
(* subtrees of the nodes a directive was issued for is entered with the    *)
(* frame key it has in the traversal of the tree without directives.       *)
C38_TrackerBalanced ==
  LET nest == Nesting(tlog, Len(tlog))
      plain == PlainVisit(TreeT, [t |-> ScopeTracker(tracker.options),
                                  keys |-> EmptyMap], walkers[1].ast).keys
      hit == Affected
  IN /\ nest.ok
     /\ ~Running =>
          /\ nest.st = <<>>
          /\ tracker.scopeIndexStack = <<>>
          /\ getCurrentScope(tracker) = <<>>
     /\ \A m \in 1..Len(tlog) :
          tlog[m].op = "processNodeEnter" /\ tlog[m].node \notin hit =>
            tlog[m].post.scopeIndexKey = plain[tlog[m].node]

----------------------------------------------------------------------------
(* C39 *)

(* the calls of _walk for node n that have returned *)
Returns(n) ==
  {k \in 1..Len(log) : log[k].w = 1 /\ log[k].op = "return" /\ log[k].node = n}

(* no call of _walk is made twice for one node *)
NoRevisit == \A n \in DOMAIN heap : Cardinality(Returns(n)) <= 1

====
